---- MODULE Spec2Model ----
(***************************************************************************)
(* Model of the JWT brute force engine (package engine) together with the  *)
(* configuration validation, error constructors and constants it uses.     *)
(*                                                                         *)
(* Strings are sequences of characters (one-character TLA+ strings), so    *)
(* len(s), s[i], concatenation and trimming are the sequence operations.   *)
(* A character of the model is one byte of the Go string; the grave accent *)
(* is written "GRAVE".                                                    *)
(***************************************************************************)
EXTENDS Integers, Sequences, FiniteSets, TLC

\* ------------------------------------------------------------------------
\* Bounds of the model
\* ------------------------------------------------------------------------
\* largest LengthMax a drawn configuration carries
MaxLength == 2
\* number of Attack() calls made on one engine
MaxAttacks == 2
\* Attack() is called again only while the counter is at most this
MaxCarriedAttempts == 8

\* ------------------------------------------------------------------------
\* internal/constants
\* ------------------------------------------------------------------------
AlgorithmHS256 == "HS256"
AlgorithmHS384 == "HS384"
AlgorithmHS512 == "HS512"

AttackModeSmart == "smart"
AttackModeWordlist == "wordlist"
AttackModeCharset == "charset"

WordlistProgressFreq == 100
CharsetProgressFreq == 1000

CharsetLowercase ==
  << "a", "b", "c", "d", "e", "f", "g", "h", "i", "j", "k", "l", "m",
     "n", "o", "p", "q", "r", "s", "t", "u", "v", "w", "x", "y", "z" >>

CharsetUppercase ==
  << "A", "B", "C", "D", "E", "F", "G", "H", "I", "J", "K", "L", "M",
     "N", "O", "P", "Q", "R", "S", "T", "U", "V", "W", "X", "Y", "Z" >>

CharsetDigitsOnly ==
  << "0", "1", "2", "3", "4", "5", "6", "7", "8", "9" >>

CharsetSpecial ==
  << "!", "@", "#", "$", "%", "^", "&", "*", "(", ")", "-",
     "_", "=", "+", "[", "]", "{", "}", "|", ";", ":", "'",
     "\"", ",", ".", "<", ">", "?", "/", "\\", "GRAVE" >>

CharsetPrintableASCII ==
  << " ", "!", "\"", "#", "$", "%", "&", "'", "(", ")", "*", "+",
     ",", "-", ".", "/", "0", "1", "2", "3", "4", "5", "6", "7",
     "8", "9", ":", ";", "<", "=", ">", "?", "@", "A", "B", "C",
     "D", "E", "F", "G", "H", "I", "J", "K", "L", "M", "N", "O",
     "P", "Q", "R", "S", "T", "U", "V", "W", "X", "Y", "Z", "[",
     "\\", "]", "^", "_", "GRAVE", "a", "b", "c", "d", "e", "f", "g",
     "h", "i", "j", "k", "l", "m", "n", "o", "p", "q", "r", "s",
     "t", "u", "v", "w", "x", "y", "z", "{", "|", "}", "~" >>

CharsetHex ==
  << "0", "1", "2", "3", "4", "5", "6", "7", "8", "9", "a", "b", "c", "d", "e", "f" >>

CharsetBase64 ==
  << "A", "B", "C", "D", "E", "F", "G", "H", "I", "J", "K", "L", "M",
     "N", "O", "P", "Q", "R", "S", "T", "U", "V", "W", "X", "Y", "Z",
     "a", "b", "c", "d", "e", "f", "g", "h", "i", "j", "k", "l", "m",
     "n", "o", "p", "q", "r", "s", "t", "u", "v", "w", "x", "y", "z",
     "0", "1", "2", "3", "4", "5", "6", "7", "8", "9", "+", "/" >>

CharsetAlphanumeric == CharsetLowercase \o CharsetUppercase \o CharsetDigitsOnly
CharsetMixed == CharsetLowercase \o CharsetUppercase

\* names of the predefined charsets, as strings
NameDigits == <<"d", "i", "g", "i", "t", "s">>
NameAlpha == <<"a", "l", "p", "h", "a">>
NamePassword == <<"p", "a", "s", "s", "w", "o", "r", "d">>
NameFull == <<"f", "u", "l", "l">>
NameLowercase == <<"l", "o", "w", "e", "r", "c", "a", "s", "e">>
NameUppercase == <<"u", "p", "p", "e", "r", "c", "a", "s", "e">>
NameMixed == <<"m", "i", "x", "e", "d">>
NameAlphanumeric == <<"a", "l", "p", "h", "a", "n", "u", "m", "e", "r", "i", "c">>
NameSpecial == <<"s", "p", "e", "c", "i", "a", "l">>
NamePrintable == <<"p", "r", "i", "n", "t", "a", "b", "l", "e">>
NameHex == <<"h", "e", "x">>
NameBase64 == <<"b", "a", "s", "e", "6", "4">>

\* the map constants.Charsets: its key set and its lookup
CharsetNames ==
  { NameDigits, NameAlpha, NamePassword, NameFull, NameLowercase, NameUppercase,
    NameMixed, NameAlphanumeric, NameSpecial, NamePrintable, NameHex, NameBase64 }

Charsets(name) ==
  CASE name = NameDigits -> CharsetDigitsOnly
    [] name = NameAlpha -> CharsetMixed
    [] name = NamePassword ->
         CharsetLowercase \o CharsetUppercase \o CharsetDigitsOnly
           \o <<"!", "@", "#", "$", "%", "^", "&", "*">>
    [] name = NameFull ->
         CharsetLowercase \o CharsetUppercase \o CharsetDigitsOnly \o CharsetSpecial
    [] name = NameLowercase -> CharsetLowercase
    [] name = NameUppercase -> CharsetUppercase
    [] name = NameMixed -> CharsetMixed
    [] name = NameAlphanumeric -> CharsetAlphanumeric
    [] name = NameSpecial -> CharsetSpecial
    [] name = NamePrintable -> CharsetPrintableASCII
    [] name = NameHex -> CharsetHex
    [] name = NameBase64 -> CharsetBase64

\* constants.SmartPatterns, in list order
SmartPatterns ==
  << <<"s", "e", "c", "r", "e", "t">>,
     <<"p", "a", "s", "s", "w", "o", "r", "d">>,
     <<"1", "2", "3", "4", "5", "6">>,
     <<"a", "d", "m", "i", "n">>,
     <<"t", "e", "s", "t">>,
     <<"k", "e", "y">>,
     <<"j", "w", "t">>,
     <<"t", "o", "k", "e", "n">>,
     <<"s", "e", "c", "r", "e", "t", "k", "e", "y">>,
     <<"j", "w", "t", "k", "e", "y">>,
     <<"m", "y", "s", "e", "c", "r", "e", "t">>,
     <<"s", "u", "p", "e", "r", "s", "e", "c", "r", "e", "t">>,
     <<"q", "w", "e", "r", "t", "y">>,
     <<"p", "a", "s", "s", "w", "o", "r", "d", "1", "2", "3">>,
     <<"y", "o", "u", "r", "-", "2", "5", "6", "-", "b", "i", "t", "-", "s", "e", "c", "r", "e", "t">>,
     <<"y", "o", "u", "r", "-", "s", "e", "c", "r", "e", "t">>,
     <<"s", "e", "c", "r", "e", "t", "-", "k", "e", "y">>,
     <<"j", "w", "t", "-", "s", "e", "c", "r", "e", "t">>,
     <<>>,
     <<"n", "u", "l", "l">>,
     <<"u", "n", "d", "e", "f", "i", "n", "e", "d">>,
     <<"y", "o", "u", "r", "_", "s", "e", "c", "r", "e", "t", "_", "h", "e", "r", "e">>,
     <<"c", "h", "a", "n", "g", "e", "_", "m", "e">>,
     <<"d", "e", "f", "a", "u", "l", "t">>,
     <<"d", "e", "m", "o">>,
     <<"e", "x", "a", "m", "p", "l", "e">>,
     <<"s", "a", "m", "p", "l", "e">>,
     <<"t", "e", "m", "p">>,
     <<"t", "e", "m", "p", "o", "r", "a", "r", "y">>,
     <<"d", "e", "v">>,
     <<"d", "e", "v", "e", "l", "o", "p", "m", "e", "n", "t">>,
     <<"p", "r", "o", "d">>,
     <<"p", "r", "o", "d", "u", "c", "t", "i", "o", "n">>,
     <<"s", "t", "a", "g", "i", "n", "g">>,
     <<"t", "e", "s", "t", "i", "n", "g">>,
     <<"d", "e", "b", "u", "g">>,
     <<"l", "o", "c", "a", "l", "h", "o", "s", "t">> >>

\* ------------------------------------------------------------------------
\* internal/errors.  An error value is the chain of its wrappers, outermost
\* first; the nil error is the empty chain.  A JWTCrackError contributes a
\* link with its Type and Code, an error of the standard library a link of
\* Type "stdlib".
\* ------------------------------------------------------------------------
NilError == << >>

StdError(name) == << [Type |-> "stdlib", Code |-> name] >>

NewError(errType, code, cause) == << [Type |-> errType, Code |-> code] >> \o cause

ErrValidation(code, cause) == NewError("validation", code, cause)
ErrConfig(code, cause) == NewError("config", code, cause)
ErrFile(code, cause) == NewError("file", code, cause)
ErrAlgorithm(code, cause) == NewError("algorithm", code, cause)
ErrAttack(code, cause) == NewError("attack", code, cause)

\* err.(*JWTCrackError) succeeds and its Type is the asked one
IsValidationError(err) ==
  err # NilError /\ err[1].Type # "stdlib" /\ err[1].Type = "validation"

IsFileError(err) ==
  err # NilError /\ err[1].Type # "stdlib" /\ err[1].Type = "file"

\* ------------------------------------------------------------------------
\* Tokens.  A token string is the sequence of its dot-separated segments
\* (strings.Split(token, ".")).  A segment is described by what decoding it
\* gives: b64 (base64.RawURLEncoding decodes it), json (the decoded bytes
\* unmarshal into a JWTHeader), alg (the header's alg), bytes (the decoded
\* bytes when they are a digest, << >> otherwise).
\* ------------------------------------------------------------------------
EmptySegment == [b64 |-> TRUE, json |-> FALSE, alg |-> "", bytes |-> << >>]
HeaderSegment(alg) == [b64 |-> TRUE, json |-> TRUE, alg |-> alg, bytes |-> << >>]
PayloadSegment == [b64 |-> TRUE, json |-> TRUE, alg |-> "", bytes |-> << >>]
GarbageSegment == [b64 |-> FALSE, json |-> FALSE, alg |-> "", bytes |-> << >>]

\* hmac.New(h, key); Write(msg); Sum(nil): the digest is a function of the
\* hash, the key and the message, and two digests are equal only if all
\* three are: the hash is taken as collision free, and the keys drawn below
\* are shorter than a hash block and hold no NUL byte, so that the zero
\* padding of the key identifies no two of them.
HMAC(hashFunc, key, msg) == << hashFunc, key, msg >>

\* base64.RawURLEncoding.EncodeToString of a digest
EncodeToString(digest) == [b64 |-> TRUE, json |-> FALSE, alg |-> "", bytes |-> digest]

\* the hash each supported algorithm selects
HashOf(alg) ==
  CASE alg = AlgorithmHS256 -> "sha256.New"
    [] alg = AlgorithmHS384 -> "sha512.New384"
    [] alg = AlgorithmHS512 -> "sha512.New"

\* a token signed with key under the header's algorithm
SignedToken(alg, key) ==
  << HeaderSegment(alg), PayloadSegment,
     EncodeToString(HMAC(HashOf(alg), key, << HeaderSegment(alg), PayloadSegment >>)) >>

\* ------------------------------------------------------------------------
\* pkg/config
\* ------------------------------------------------------------------------
NumCPU == 4

Max(a, b) == IF a > b THEN a ELSE b

\* Config.Validate: the message of the first failed check, "" when valid
Validate(c) ==
  IF c.Token = << EmptySegment >> THEN "JWT token is required"
  ELSE IF c.LengthMin < 1 THEN "minimum length must be at least 1"
  ELSE IF c.LengthMax < c.LengthMin
    THEN "maximum length must be greater than or equal to minimum length"
  ELSE IF c.LengthMax > 20 THEN "maximum length cannot exceed 20 characters"
  ELSE IF c.Threads < 1 THEN "thread count must be at least 1"
  ELSE IF c.Threads > 64 THEN "thread count cannot exceed 64"
  ELSE IF c.Performance \notin {"eco", "balanced", "performance", "maximum"}
    THEN "invalid performance level"
  ELSE IF c.Charset = << >> THEN "charset cannot be empty"
  ELSE IF c.Charset \notin {NameDigits, NameAlpha, NamePassword, NameFull}
          /\ Len(c.Charset) > 1000
    THEN "charset too long"
  ELSE IF c.WebPort < 1 \/ c.WebPort > 65535
    THEN "web port must be between 1 and 65535"
  ELSE ""

\* Config.AdjustForPerformance: the configuration with Threads rewritten
AdjustForPerformance(c) ==
  CASE c.Performance = "eco" -> [c EXCEPT !.Threads = Max(1, NumCPU \div 4)]
    [] c.Performance = "balanced" -> [c EXCEPT !.Threads = Max(1, NumCPU \div 2)]
    [] c.Performance = "performance" -> [c EXCEPT !.Threads = NumCPU]
    [] c.Performance = "maximum" -> [c EXCEPT !.Threads = NumCPU * 2]
    [] OTHER -> c

\* ------------------------------------------------------------------------
\* parseJWTHeader: <<algorithm, hashFunc, err>>
\* ------------------------------------------------------------------------
parseJWTHeader(headerPart) ==
  IF ~headerPart.b64
    THEN << "", "", StdError("failed to decode header") >>
  ELSE IF ~headerPart.json
    THEN << "", "", StdError("failed to parse header JSON") >>
  ELSE IF headerPart.alg \in {AlgorithmHS256, AlgorithmHS384, AlgorithmHS512}
    THEN << headerPart.alg, HashOf(headerPart.alg), NilError >>
  ELSE << "", "", ErrAlgorithm("UNSUPPORTED_ALGORITHM", NilError) >>

\* ------------------------------------------------------------------------
\* Inputs the model draws from
\* ------------------------------------------------------------------------
KeyEmpty == << >>
KeyA == <<"a">>
KeyAB == <<"a", "b">>
KeyBB == <<"b", "b">>
KeyC == <<"c">>
Key42 == <<"4", "2">>
KeySecret == <<"s", "e", "c", "r", "e", "t">>
KeyLocalhost == <<"l", "o", "c", "a", "l", "h", "o", "s", "t">>
\* the secret of the tests' validTokenSecret
KeyYour256 ==
  <<"y", "o", "u", "r", "-", "2", "5", "6", "-", "b", "i", "t", "-", "s", "e", "c", "r", "e", "t">>

SigningKeys == { KeyEmpty, KeyA, KeyAB, KeyBB, KeyC, Key42, KeySecret, KeyLocalhost }

ValidTokens ==
  { SignedToken(AlgorithmHS256, k) : k \in SigningKeys }
    \cup { SignedToken(AlgorithmHS384, KeyA), SignedToken(AlgorithmHS512, KeyBB) }

\* a segment that is base64url but whose bytes are no JSON object
NotJSONSegment == [b64 |-> TRUE, json |-> FALSE, alg |-> "", bytes |-> <<"n", "o">>]

\* tokens of three segments with a supported header whose payload or
\* signature segment is not what a token's is
UncheckedTokens ==
  { << HeaderSegment(AlgorithmHS256), GarbageSegment,
       EncodeToString(HMAC("sha256.New", KeySecret,
                           << HeaderSegment(AlgorithmHS256), GarbageSegment >>)) >>,
    << HeaderSegment(AlgorithmHS256), PayloadSegment, GarbageSegment >>,
    << HeaderSegment(AlgorithmHS256), NotJSONSegment, GarbageSegment >> }

MalformedTokens ==
  { << EmptySegment >>,
    << HeaderSegment(AlgorithmHS256), PayloadSegment >>,
    << HeaderSegment(AlgorithmHS256), PayloadSegment, GarbageSegment, GarbageSegment >>,
    << GarbageSegment, PayloadSegment, GarbageSegment >>,
    << EmptySegment, PayloadSegment, GarbageSegment >>,
    << HeaderSegment("RS256"), PayloadSegment,
       EncodeToString(HMAC("sha256.New", KeyA, << >>)) >>,
    << HeaderSegment(""), PayloadSegment, GarbageSegment >> }

BaseConfig ==
  [ Token |-> SignedToken(AlgorithmHS256, KeySecret), Wordlist |-> "",
    Charset |-> <<"a", "b">>, LengthMin |-> 1, LengthMax |-> 1,
    Threads |-> 1, Performance |-> "balanced", Smart |-> FALSE, WebPort |-> 8080 ]

SmartConfigs ==
  { [BaseConfig EXCEPT !.Smart = TRUE, !.Token = t, !.Wordlist = w, !.Charset = c] :
      t \in ValidTokens, w \in {"", "words.txt"}, c \in { <<"a", "b">>, NameDigits } }
  \cup
  { [BaseConfig EXCEPT !.Smart = TRUE, !.Token = t] :
      t \in { SignedToken(AlgorithmHS256, KeyYour256) } \cup UncheckedTokens }

WordlistConfigs ==
  { [BaseConfig EXCEPT !.Wordlist = "words.txt", !.Token = t, !.Charset = c] :
      t \in ValidTokens, c \in { <<"a", "b">>, NameDigits } }

SmallCharsets == { <<"a", "b">>, <<"a", "a", "b">>, <<"b">> }

CharsetConfigs ==
  { [BaseConfig EXCEPT !.Token = t, !.Charset = c, !.LengthMin = lo, !.LengthMax = hi] :
      t \in ValidTokens, c \in SmallCharsets, lo \in 1..MaxLength, hi \in 1..MaxLength }
  \cup
  { [BaseConfig EXCEPT !.Token = SignedToken(AlgorithmHS256, k), !.Charset = NameDigits,
                       !.LengthMin = n, !.LengthMax = n] :
      k \in { Key42, KeyC }, n \in 1..MaxLength }

InvalidConfigs ==
  { [BaseConfig EXCEPT !.Token = t] : t \in MalformedTokens }
  \cup { [BaseConfig EXCEPT !.LengthMin = 0],
         [BaseConfig EXCEPT !.LengthMax = 21],
         [BaseConfig EXCEPT !.Threads = 0],
         [BaseConfig EXCEPT !.Threads = 65],
         [BaseConfig EXCEPT !.Performance = "turbo"],
         [BaseConfig EXCEPT !.Charset = << >>],
         [BaseConfig EXCEPT !.WebPort = 0] }

Configs == SmartConfigs \cup WordlistConfigs \cup CharsetConfigs \cup InvalidConfigs

\* contents a word list file can have, as the lines bufio.Scanner yields
FileOfSpec ==
  << <<"w", "r", "o", "n", "g", "1">>, <<"w", "r", "o", "n", "g", "2">>,
     <<"s", "e", "c", "r", "e", "t">>, <<"w", "r", "o", "n", "g", "3">> >>

FileWithBlanks ==
  << << >>, <<" ">>, <<" ", "a", " ">>, <<"\t", " ">>, <<"b", "b">>,
     <<"\t", "a", "b">>, <<"a">>, <<"b", "b", " ">> >>

Files == { FileOfSpec, FileWithBlanks, << >> }

\* a word list long enough for the progress cadence: BigFileLines lines, one
\* of them blank, none of them the key "a"; and the same with the key on its
\* last line
BigFileLines == 101

BigFileMiss == [i \in 1..BigFileLines |-> IF i = 7 THEN <<" ">> ELSE <<"x">>]

BigFileHit == [BigFileMiss EXCEPT ![BigFileLines] = <<"a">>]

\* what the file system holds at a path, and the Scans of it that may fail
FilesAt(path) == IF path = "big.txt" THEN { BigFileMiss, BigFileHit } ELSE Files

ReadErrorsAt(f) == IF Len(f) > 10 THEN { 0, Len(f) \div 2 } ELSE 0..(Len(f) + 1)

\* ------------------------------------------------------------------------
\* State
\* ------------------------------------------------------------------------
VARIABLES
  cfg,              \* the caller's Config, shared with the engine by pointer
  cfgIsNil,         \* the caller passes a nil *Config to New
  pc,               \* where the caller and the engine are
  newErr,           \* the error New returned
  jwtParts,         \* Engine.jwtParts
  algorithm,        \* Engine.algorithm
  hashFunc,         \* Engine.hashFunc
  attempts,         \* Engine.attempts
  progressCallback, \* Engine.progressCallback is set
  ctxErr,           \* ctx.Err() of the context of the running Attack
  fileLines,        \* the lines of the opened word list
  readErrAt,        \* the Scan (1-based) that fails with a read error, 0: none
  patIdx,           \* smartAttack: position in the range loop
  lineIdx,          \* wordlistAttack: number of the next Scan
  charset,          \* charsetAttack: the resolved charset
  length,           \* charsetAttack: the loop variable
  indices,          \* bruteforceLength: the odometer
  result,           \* the strategy's *Result
  retResult,        \* what Attack returned: << >> is nil, << r >> is &r
  retErr,           \* the error Attack returned
  ranMode,          \* the strategy function Attack dispatched to
  attackNo,         \* number of Attack calls made on the engine
  tested,           \* the candidates passed to verifySecret by this call
  verified,         \* number of verifySecret calls made by the engine
  attemptsAtStart,  \* the counter when this Attack call began
  attemptsAtCancel, \* the counter when the context was cancelled
  progressLog,      \* the progress callback's invocations in this call
  stats,            \* what the last GetStats call of another goroutine returned
  verifyCall,       \* the last direct call of verifySecret and what it returned
  charsetCall,      \* the last call of ValidateCharset and what it returned
  expandCalls,      \* the calls of ProcessHashcatCharset and what they returned
  crackRet,         \* what runCrack returned: << >> while it runs, << err >> after
  req,              \* the request of startAttackHandler: << >> before, << r >> after
  wpc,              \* where each handler and goroutine of the web server is
  attacks,          \* Server.attacks: << >> is the empty map, << s >> holds session s
  attacksMu,        \* Server.attacksMu
  sessionMu,        \* AttackSession.mu of the session
  broadcast,        \* the messages handed to broadcastMessage
  access,           \* the kinds of access made to the map Server.attacks so far
  progressSent      \* the callback invocations UpdateAttackProgress has handled

configVars == << cfg, cfgIsNil >>
engineVars == << jwtParts, algorithm, hashFunc, progressCallback >>
fileVars == << fileLines, readErrAt >>
loopVars == << patIdx, lineIdx, charset, length, indices >>
retVars == << retResult, retErr >>
callVars == << ranMode, attackNo, attemptsAtStart >>
\* the state of the web server
webVars == << req, wpc, attacks, attacksMu, sessionMu, broadcast, access, progressSent >>
\* the state of the engine's callers: the crack command and the web server
callerVars == << crackRet, webVars >>
observerVars == << stats, verifyCall, charsetCall, expandCalls, callerVars >>

vars ==
  << cfg, cfgIsNil, pc, newErr, jwtParts, algorithm, hashFunc, attempts,
     progressCallback, ctxErr, fileLines, readErrAt, patIdx, lineIdx, charset,
     length, indices, result, retResult, retErr, ranMode, attackNo, tested,
     verified, attemptsAtStart, attemptsAtCancel, progressLog, stats, verifyCall,
     charsetCall, expandCalls, crackRet, req, wpc, attacks, attacksMu, sessionMu,
     broadcast, access, progressSent >>

\* the handlers and goroutines of the web server that touch the session
Goroutines == { "start", "exec", "stop", "status", "list", "health", "remove" }

\* a sync.RWMutex: the goroutine holding it for writing ("" for none), those
\* holding it for reading, and those blocked in Lock()
FreeMutex == [w |-> "", r |-> { }, q |-> { }]

\* &Result{}
ZeroResult ==
  [Success |-> FALSE, Secret |-> << >>, Algorithm |-> "", Attempts |-> 0,
   AttackMode |-> ""]

\* the state before New is called with one of the given configurations
InitWith(configs) ==
  /\ cfg \in configs
  /\ cfgIsNil \in BOOLEAN
  /\ cfgIsNil => cfg = BaseConfig
  /\ pc = "start"
  /\ newErr = NilError
  /\ jwtParts = << >>
  /\ algorithm = ""
  /\ hashFunc = ""
  /\ attempts = 0
  /\ progressCallback = FALSE
  /\ ctxErr = "none"
  /\ fileLines = << >>
  /\ readErrAt = 0
  /\ patIdx = 1
  /\ lineIdx = 1
  /\ charset = << >>
  /\ length = 0
  /\ indices = << >>
  /\ result = ZeroResult
  /\ retResult = << >>
  /\ retErr = NilError
  /\ ranMode = "none"
  /\ attackNo = 0
  /\ tested = << >>
  /\ verified = 0
  /\ attemptsAtStart = 0
  /\ attemptsAtCancel = 0
  /\ progressLog = << >>
  /\ stats = << >>
  /\ verifyCall = << >>
  /\ charsetCall = << >>
  /\ expandCalls = << >>
  /\ crackRet = << >>
  /\ req = << >>
  /\ wpc = [g \in Goroutines |-> << "idle" >>]
  /\ attacks = << >>
  /\ attacksMu = FreeMutex
  /\ sessionMu = FreeMutex
  /\ broadcast = << >>
  /\ access = { }
  /\ progressSent = 0

Init == InitWith(Configs)

\* ------------------------------------------------------------------------
\* New
\* ------------------------------------------------------------------------
NewFails(err) ==
  /\ newErr' = err
  /\ pc' = "failed"
  /\ UNCHANGED << cfg, jwtParts, algorithm, hashFunc >>

New ==
  /\ pc = "start"
  /\ IF cfgIsNil
       THEN NewFails(ErrConfig("CONFIG_VALIDATION", NilError))
     ELSE IF Validate(cfg) # ""
       THEN NewFails(ErrConfig("CONFIG_VALIDATION", StdError(Validate(cfg))))
     ELSE IF Len(cfg.Token) # 3
       THEN NewFails(ErrValidation("INVALID_TOKEN", NilError))
     ELSE IF parseJWTHeader(cfg.Token[1])[3] # NilError
       THEN NewFails(ErrValidation("INVALID_TOKEN", parseJWTHeader(cfg.Token[1])[3]))
     ELSE /\ cfg' = AdjustForPerformance(cfg)
          /\ jwtParts' = cfg.Token
          /\ algorithm' = parseJWTHeader(cfg.Token[1])[1]
          /\ hashFunc' = parseJWTHeader(cfg.Token[1])[2]
          /\ newErr' = NilError
          /\ pc' = "idle"
  /\ UNCHANGED << observerVars, cfgIsNil, attempts, progressCallback, ctxErr, fileVars, loopVars,
                  result, retVars, callVars, tested, verified, attemptsAtCancel,
                  progressLog >>

\* SetProgressCallback with a non-nil callback
SetProgressCallback ==
  /\ pc = "idle"
  /\ ~progressCallback
  /\ progressCallback' = TRUE
  /\ UNCHANGED << observerVars, configVars, pc, newErr, jwtParts, algorithm, hashFunc, attempts,
                  ctxErr, fileVars, loopVars, result, retVars, callVars, tested,
                  verified, attemptsAtCancel, progressLog >>

\* ------------------------------------------------------------------------
\* Engine helpers
\* ------------------------------------------------------------------------
\* a comparison of the digests that leaves the key out
verifySecretAnyKey(secret) ==
  LET digest == HMAC(hashFunc, secret, << jwtParts[1], jwtParts[2] >>) IN
    /\ jwtParts[3].bytes # << >>
    /\ digest[1] = jwtParts[3].bytes[1]
    /\ digest[3] = jwtParts[3].bytes[3]

\* Engine.verifySecret
verifySecret(secret) ==
  EncodeToString(HMAC(hashFunc, secret, << jwtParts[1], jwtParts[2] >>)) = jwtParts[3]

\* getAttackMode with the word list case tested before the smart case
getAttackModeWordlistFirst ==
  IF cfg.Wordlist # "" THEN AttackModeWordlist
  ELSE IF cfg.Smart THEN AttackModeSmart
  ELSE AttackModeCharset

\* Engine.getAttackMode
getAttackMode ==
  IF cfg.Smart THEN AttackModeSmart
  ELSE IF cfg.Wordlist # "" THEN AttackModeWordlist
  ELSE AttackModeCharset

\* GetStats reporting the attempts of the running call only
GetStatsOfCall == << attempts - attemptsAtStart, getAttackMode >>

\* Engine.GetStats
GetStats == << attempts, getAttackMode >>

\* white space, as unicode.IsSpace has it for the characters of the model
WhiteSpace == { " ", "\t", "\n", "\r" }

RECURSIVE TrimLeft(_)
TrimLeft(s) ==
  IF s # << >> /\ Head(s) \in WhiteSpace THEN TrimLeft(Tail(s)) ELSE s

RECURSIVE TrimRight(_)
TrimRight(s) ==
  IF s # << >> /\ s[Len(s)] \in WhiteSpace
    THEN TrimRight(SubSeq(s, 1, Len(s) - 1))
    ELSE s

\* a trim of the leading white space only
TrimSpaceLeftOnly(s) == TrimLeft(s)

\* strings.TrimSpace
TrimSpace(s) == TrimRight(TrimLeft(s))

\* make([]int, length)
ZeroIndices(n) == [i \in 1..n |-> 0]

\* bruteforceLength: the candidate the odometer stands at
Candidate(cs, idx) == [i \in 1..Len(idx) |-> cs[idx[i] + 1]]

\* the carry loop stopping before the first position
RECURSIVE IncrementSkipsFirst(_, _, _, _)
IncrementSkipsFirst(idx, i, carry, charsetLen) ==
  IF i >= 2 /\ carry > 0
    THEN IF idx[i] + carry >= charsetLen
           THEN IncrementSkipsFirst([idx EXCEPT ![i] = 0], i - 1, 1, charsetLen)
           ELSE IncrementSkipsFirst([idx EXCEPT ![i] = idx[i] + carry], i - 1, 0,
                                    charsetLen)
    ELSE [indices |-> idx, carry |-> carry]

\* the carry loop running from the first position up: the first position
\* varies fastest
RECURSIVE IncrementUp(_, _, _, _)
IncrementUp(idx, j, carry, charsetLen) ==
  IF j <= Len(idx) /\ carry > 0
    THEN IF idx[j] + carry >= charsetLen
           THEN IncrementUp([idx EXCEPT ![j] = 0], j + 1, 1, charsetLen)
           ELSE IncrementUp([idx EXCEPT ![j] = idx[j] + carry], j + 1, 0, charsetLen)
    ELSE [indices |-> idx, carry |-> carry]

IncrementFirstFastest(idx, i, carry, charsetLen) ==
  IncrementUp(idx, Len(idx) - i + 1, carry, charsetLen)

\* an overflow of the last position ends the length instead of carrying
IncrementNoCarry(idx, i, carry, charsetLen) ==
  IF i >= 1 /\ carry > 0
    THEN IF idx[i] + carry >= charsetLen
           THEN [indices |-> [idx EXCEPT ![i] = 0], carry |-> 1]
           ELSE [indices |-> [idx EXCEPT ![i] = idx[i] + carry], carry |-> 0]
    ELSE [indices |-> idx, carry |-> carry]

\* bruteforceLength: the carry loop from position i down to the first position;
\* the odometer and the carry it leaves
RECURSIVE Increment(_, _, _, _)
Increment(idx, i, carry, charsetLen) ==
  IF i >= 1 /\ carry > 0
    THEN IF idx[i] + carry >= charsetLen
           THEN Increment([idx EXCEPT ![i] = 0], i - 1, 1, charsetLen)
           ELSE Increment([idx EXCEPT ![i] = idx[i] + carry], i - 1, 0, charsetLen)
    ELSE [indices |-> idx, carry |-> carry]

\* ------------------------------------------------------------------------
\* Attack
\* ------------------------------------------------------------------------
Running ==
  pc \in { "smartLoop", "smartTest", "wordlistOpen", "wordlistLoop", "wordlistTest",
           "charsetStart", "bruteforceLoop", "bruteforceTest" }

\* the end of Attack: a strategy returned (res, err)
AttackReturns(res, err) ==
  /\ pc' = "returned"
  /\ IF err # NilError
       THEN /\ retResult' = << >>
            /\ retErr' = ErrAttack("ATTACK_EXECUTION", err)
       ELSE /\ retResult' = << [res EXCEPT !.Algorithm = algorithm,
                                          !.AttackMode = getAttackMode] >>
            /\ retErr' = NilError

\* the context looked at on every second attempt only
DoneSampled == ctxErr # "none" /\ attempts % 2 = 0

\* case <-ctx.Done(): is ready
Done == ctxErr # "none"

\* ctx.Err() of a done context
CtxErr == StdError(ctxErr)

\* the call of Attack up to the dispatch; the context handed in may already
\* be done.  The start time and the log lines carry no state of the model.
Attack ==
  /\ pc \in { "idle", "returned" }
  /\ attackNo < MaxAttacks
  /\ attempts <= MaxCarriedAttempts
  /\ attackNo' = attackNo + 1
  /\ \E c \in { "none", "context.Canceled" } : ctxErr' = c
  /\ attemptsAtStart' = attempts
  /\ attemptsAtCancel' = attempts
  /\ tested' = << >>
  /\ progressLog' = << >>
  /\ result' = ZeroResult
  /\ retResult' = << >>
  /\ retErr' = NilError
  /\ fileLines' = << >>
  /\ readErrAt' = 0
  /\ patIdx' = 1
  /\ lineIdx' = 1
  /\ charset' = << >>
  /\ length' = 0
  /\ indices' = << >>
  /\ IF cfg.Smart
       THEN pc' = "smartLoop" /\ ranMode' = AttackModeSmart
     ELSE IF cfg.Wordlist # ""
       THEN pc' = "wordlistOpen" /\ ranMode' = AttackModeWordlist
     ELSE pc' = "charsetStart" /\ ranMode' = AttackModeCharset
  /\ UNCHANGED << observerVars, configVars, newErr, engineVars, attempts, verified >>

\* the context is cancelled, or its deadline passes, while Attack runs
Cancel ==
  /\ Running
  /\ ctxErr = "none"
  /\ \E c \in { "context.Canceled", "context.DeadlineExceeded" } : ctxErr' = c
  /\ attemptsAtCancel' = attempts
  /\ UNCHANGED << observerVars, configVars, pc, newErr, engineVars, attempts, fileVars, loopVars,
                  result, retVars, callVars, tested, verified, progressLog >>

\* TestCandidate with the candidate written to the Result before it is verified
TestCandidateKeepsSecret(candidate, at, progressDue, status) ==
  /\ attempts' = attempts + 1
  /\ verified' = verified + 1
  /\ tested' = Append(tested, [cand |-> candidate, at |-> at])
  /\ IF verifySecret(candidate)
       THEN /\ result' = [result EXCEPT !.Success = TRUE, !.Secret = candidate,
                                        !.Attempts = attempts + 1]
            /\ UNCHANGED progressLog
       ELSE /\ result' = [result EXCEPT !.Secret = candidate]
            /\ progressLog' =
                 IF progressCallback /\ progressDue
                   THEN Append(progressLog, [attempts |-> attempts + 1, status |-> status])
                   ELSE progressLog

\* TestCandidate with the callback invoked before the candidate is verified
TestCandidateReportsFirst(candidate, at, progressDue, status) ==
  /\ attempts' = attempts + 1
  /\ verified' = verified + 1
  /\ tested' = Append(tested, [cand |-> candidate, at |-> at])
  /\ progressLog' =
       IF progressCallback /\ progressDue
         THEN Append(progressLog, [attempts |-> attempts + 1, status |-> status])
         ELSE progressLog
  /\ IF verifySecret(candidate)
       THEN result' = [result EXCEPT !.Success = TRUE, !.Secret = candidate,
                                    !.Attempts = attempts + 1]
       ELSE UNCHANGED result

\* TestCandidate with the result and the callback given the number of
\* candidates of the running call instead of the engine's counter
TestCandidateCountsCall(candidate, at, progressDue, status) ==
  /\ attempts' = attempts + 1
  /\ verified' = verified + 1
  /\ tested' = Append(tested, [cand |-> candidate, at |-> at])
  /\ IF verifySecret(candidate)
       THEN /\ result' = [result EXCEPT !.Success = TRUE, !.Secret = candidate,
                                        !.Attempts = Len(tested) + 1]
            /\ UNCHANGED progressLog
       ELSE /\ UNCHANGED result
            /\ progressLog' =
                 IF progressCallback /\ progressDue
                   THEN Append(progressLog, [attempts |-> Len(tested) + 1, status |-> status])
                   ELSE progressLog

\* one candidate goes through the counter and the verifier; progressDue tells
\* whether the callback is invoked when it does not match
TestCandidate(candidate, at, progressDue, status) ==
  /\ attempts' = attempts + 1
  /\ verified' = verified + 1
  /\ tested' = Append(tested, [cand |-> candidate, at |-> at])
  /\ IF verifySecret(candidate)
       THEN /\ result' = [result EXCEPT !.Success = TRUE, !.Secret = candidate,
                                        !.Attempts = attempts + 1]
            /\ UNCHANGED progressLog
       ELSE /\ UNCHANGED result
            /\ progressLog' =
                 IF progressCallback /\ progressDue
                   THEN Append(progressLog, [attempts |-> attempts + 1, status |-> status])
                   ELSE progressLog

\* smartAttack: the range check and the poll of the context
SmartPoll ==
  /\ pc = "smartLoop"
  /\ IF patIdx > Len(SmartPatterns)
       THEN AttackReturns([result EXCEPT !.Attempts = attempts], NilError)
     ELSE IF Done
       THEN AttackReturns(result, CtxErr)
     ELSE pc' = "smartTest" /\ UNCHANGED retVars
  /\ UNCHANGED << observerVars, configVars, newErr, engineVars, attempts, ctxErr, fileVars, loopVars,
                  result, callVars, tested, verified, attemptsAtCancel, progressLog >>

\* SmartTest without the return on a match: the loop goes on to the next pattern
SmartTestKeepsGoing ==
  /\ pc = "smartTest"
  /\ TestCandidate(SmartPatterns[patIdx], << patIdx >>, TRUE,
                   << "Testing pattern: ", SmartPatterns[patIdx] >>)
  /\ pc' = "smartLoop" /\ patIdx' = patIdx + 1 /\ UNCHANGED retVars
  /\ UNCHANGED << observerVars, configVars, newErr, engineVars, ctxErr, fileVars,
                  lineIdx, charset, length, indices, callVars, attemptsAtCancel >>

\* smartAttack: the rest of the loop body
SmartTest ==
  /\ pc = "smartTest"
  /\ TestCandidate(SmartPatterns[patIdx], << patIdx >>, TRUE,
                   << "Testing pattern: ", SmartPatterns[patIdx] >>)
  /\ IF verifySecret(SmartPatterns[patIdx])
       THEN AttackReturns(result', NilError) /\ UNCHANGED patIdx
       ELSE pc' = "smartLoop" /\ patIdx' = patIdx + 1 /\ UNCHANGED retVars
  /\ UNCHANGED << observerVars, configVars, newErr, engineVars, ctxErr, fileVars, lineIdx, charset,
                  length, indices, callVars, attemptsAtCancel >>

\* wordlistAttack: os.Open
WordlistOpen ==
  /\ pc = "wordlistOpen"
  /\ \E ok \in BOOLEAN :
       IF ok
         THEN /\ \E f \in FilesAt(cfg.Wordlist) : \E e \in ReadErrorsAt(f) :
                   fileLines' = f /\ readErrAt' = e
              /\ pc' = "wordlistLoop"
              /\ UNCHANGED retVars
         ELSE /\ AttackReturns(result, ErrFile("FILE_READ", StdError("os.Open")))
              /\ UNCHANGED fileVars
  /\ UNCHANGED << observerVars, configVars, newErr, engineVars, attempts, ctxErr, loopVars, result,
                  callVars, tested, verified, attemptsAtCancel, progressLog >>

\* WordlistScan with a blank line counted as an attempt
WordlistScanCountsBlank ==
  /\ pc = "wordlistLoop"
  /\ IF readErrAt = lineIdx
       THEN AttackReturns(result, ErrFile("FILE_READ", StdError("scanner.Err")))
            /\ UNCHANGED << lineIdx, attempts >>
     ELSE IF lineIdx > Len(fileLines)
       THEN AttackReturns([result EXCEPT !.Attempts = attempts], NilError)
            /\ UNCHANGED << lineIdx, attempts >>
     ELSE IF Done
       THEN AttackReturns([result EXCEPT !.Attempts = attempts], CtxErr)
            /\ UNCHANGED << lineIdx, attempts >>
     ELSE IF TrimSpace(fileLines[lineIdx]) = << >>
       THEN lineIdx' = lineIdx + 1 /\ attempts' = attempts + 1
            /\ UNCHANGED << pc, retVars >>
     ELSE pc' = "wordlistTest" /\ UNCHANGED << lineIdx, attempts, retVars >>
  /\ UNCHANGED << observerVars, configVars, newErr, engineVars, ctxErr, fileVars, patIdx,
                  charset, length, indices, result, callVars, tested, verified,
                  attemptsAtCancel, progressLog >>

\* WordlistScan with a blank line never passed over: the loop stays on it
WordlistScanStopsAtBlank ==
  /\ pc = "wordlistLoop"
  /\ IF readErrAt = lineIdx
       THEN AttackReturns(result, ErrFile("FILE_READ", StdError("scanner.Err")))
            /\ UNCHANGED lineIdx
     ELSE IF lineIdx > Len(fileLines)
       THEN AttackReturns([result EXCEPT !.Attempts = attempts], NilError)
            /\ UNCHANGED lineIdx
     ELSE IF Done
       THEN AttackReturns([result EXCEPT !.Attempts = attempts], CtxErr)
            /\ UNCHANGED lineIdx
     ELSE IF TrimSpace(fileLines[lineIdx]) = << >>
       THEN UNCHANGED << lineIdx, pc, retVars >>
     ELSE pc' = "wordlistTest" /\ UNCHANGED << lineIdx, retVars >>
  /\ UNCHANGED << observerVars, configVars, newErr, engineVars, attempts, ctxErr,
                  fileVars, patIdx, charset, length, indices, result, callVars, tested,
                  verified, attemptsAtCancel, progressLog >>

\* wordlistAttack: scanner.Scan(), the poll of the context, the trim and the
\* skip of a blank line
WordlistScan ==
  /\ pc = "wordlistLoop"
  /\ IF readErrAt = lineIdx
       THEN AttackReturns(result, ErrFile("FILE_READ", StdError("scanner.Err")))
            /\ UNCHANGED lineIdx
     ELSE IF lineIdx > Len(fileLines)
       THEN AttackReturns([result EXCEPT !.Attempts = attempts], NilError)
            /\ UNCHANGED lineIdx
     ELSE IF Done
       THEN AttackReturns([result EXCEPT !.Attempts = attempts], CtxErr)
            /\ UNCHANGED lineIdx
     ELSE IF TrimSpace(fileLines[lineIdx]) = << >>
       THEN lineIdx' = lineIdx + 1 /\ UNCHANGED << pc, retVars >>
     ELSE pc' = "wordlistTest" /\ UNCHANGED << lineIdx, retVars >>
  /\ UNCHANGED << observerVars, configVars, newErr, engineVars, attempts, ctxErr, fileVars, patIdx,
                  charset, length, indices, result, callVars, tested, verified,
                  attemptsAtCancel, progressLog >>

\* wordlistAttack: the rest of the loop body
WordlistTest ==
  /\ pc = "wordlistTest"
  /\ TestCandidate(TrimSpace(fileLines[lineIdx]), << lineIdx >>,
                   (attempts + 1) % WordlistProgressFreq = 0,
                   << "Tested passwords", attempts + 1 >>)
  /\ IF verifySecret(TrimSpace(fileLines[lineIdx]))
       THEN AttackReturns(result', NilError) /\ UNCHANGED lineIdx
       ELSE pc' = "wordlistLoop" /\ lineIdx' = lineIdx + 1 /\ UNCHANGED retVars
  /\ UNCHANGED << observerVars, configVars, newErr, engineVars, ctxErr, fileVars, patIdx, charset,
                  length, indices, callVars, attemptsAtCancel >>

\* charsetAttack: the charset the configuration resolves to
ResolveCharset(name) == IF name \in CharsetNames THEN Charsets(name) ELSE name

\* charsetAttack up to the first call of bruteforceLength
CharsetStart ==
  /\ pc = "charsetStart"
  /\ charset' = ResolveCharset(cfg.Charset)
  /\ IF charset' = << >>
       THEN /\ AttackReturns(result, ErrValidation("INVALID_CHARSET", NilError))
            /\ UNCHANGED << length, indices >>
     ELSE IF cfg.LengthMin > cfg.LengthMax
       THEN /\ AttackReturns([result EXCEPT !.Attempts = attempts], NilError)
            /\ UNCHANGED << length, indices >>
     ELSE /\ length' = cfg.LengthMin
          /\ indices' = ZeroIndices(cfg.LengthMin)
          /\ pc' = "bruteforceLoop"
          /\ UNCHANGED retVars
  /\ UNCHANGED << observerVars, configVars, newErr, engineVars, attempts, ctxErr, fileVars, patIdx,
                  lineIdx, result, callVars, tested, verified, attemptsAtCancel,
                  progressLog >>

\* bruteforceLength: the poll of the context
BruteforcePoll ==
  /\ pc = "bruteforceLoop"
  /\ IF Done
       THEN AttackReturns(result, CtxErr)
       ELSE pc' = "bruteforceTest" /\ UNCHANGED retVars
  /\ UNCHANGED << observerVars, configVars, newErr, engineVars, attempts, ctxErr, fileVars, loopVars,
                  result, callVars, tested, verified, attemptsAtCancel, progressLog >>

\* bruteforceLength: the rest of the loop body, and on exhaustion of the
\* length the step of charsetAttack's loop
BruteforceTest ==
  /\ pc = "bruteforceTest"
  /\ TestCandidate(Candidate(charset, indices), indices,
                   (attempts + 1) % CharsetProgressFreq = 0,
                   << "Testing length", length, Candidate(charset, indices) >>)
  /\ LET next == Increment(indices, length, 1, Len(charset)) IN
       IF verifySecret(Candidate(charset, indices))
         THEN AttackReturns(result', NilError) /\ UNCHANGED << length, indices >>
       ELSE IF next.carry = 0
         THEN /\ indices' = next.indices
              /\ pc' = "bruteforceLoop"
              /\ UNCHANGED << length, retVars >>
       ELSE IF length + 1 <= cfg.LengthMax
         THEN /\ length' = length + 1
              /\ indices' = ZeroIndices(length + 1)
              /\ pc' = "bruteforceLoop"
              /\ UNCHANGED retVars
       ELSE /\ AttackReturns([result EXCEPT !.Attempts = attempts + 1], NilError)
            /\ indices' = next.indices
            /\ UNCHANGED length
  /\ UNCHANGED << observerVars, configVars, newErr, engineVars, ctxErr, fileVars, patIdx, lineIdx,
                  charset, callVars, attemptsAtCancel >>

Next ==
  \/ New
  \/ SetProgressCallback
  \/ Attack
  \/ Cancel
  \/ SmartPoll
  \/ SmartTest
  \/ WordlistOpen
  \/ WordlistScan
  \/ WordlistTest
  \/ CharsetStart
  \/ BruteforcePoll
  \/ BruteforceTest

Spec == Init /\ [][Next]_vars

\* ------------------------------------------------------------------------
\* verifySecret called directly on a constructed engine, as TestVerifySecret
\* does, over every algorithm and signing key
\* ------------------------------------------------------------------------
Algorithms == { AlgorithmHS256, AlgorithmHS384, AlgorithmHS512 }

KeyWrongSecret == <<"w", "r", "o", "n", "g", "-", "s", "e", "c", "r", "e", "t">>

TestSecrets == SigningKeys \cup { KeyYour256, KeyWrongSecret }

VerifyConfigs ==
  { [BaseConfig EXCEPT !.Token = SignedToken(a, k)] :
      a \in Algorithms, k \in SigningKeys \cup { KeyYour256 } }

VerifySecretCall ==
  /\ pc = "idle"
  /\ \E secret \in TestSecrets :
       verifyCall' = << [secret |-> secret, ret |-> verifySecret(secret)] >>
  /\ UNCHANGED << cfg, cfgIsNil, pc, newErr, jwtParts, algorithm, hashFunc, attempts,
                  progressCallback, ctxErr, fileLines, readErrAt, patIdx, lineIdx,
                  charset, length, indices, result, retResult, retErr, ranMode,
                  attackNo, tested, verified, attemptsAtStart, attemptsAtCancel,
                  progressLog, stats, charsetCall, expandCalls, callerVars >>

InitVerify == InitWith(VerifyConfigs)

NextVerify == New \/ VerifySecretCall

SpecVerify == InitVerify /\ [][NextVerify]_vars

\* ------------------------------------------------------------------------
\* Attacks long enough for the progress cadences of the dictionary and the
\* charset strategy, as TestProgressCallback runs them with a callback
\* ------------------------------------------------------------------------
KeyNines == <<"9", "9", "9">>

ProgressConfigs ==
  { [BaseConfig EXCEPT !.Smart = TRUE, !.Token = SignedToken(AlgorithmHS256, k)] :
      k \in { KeySecret, KeyYour256, KeyC } }
  \cup
  { [BaseConfig EXCEPT !.Wordlist = "big.txt", !.Token = SignedToken(AlgorithmHS256, KeyA)] }
  \cup
  { [BaseConfig EXCEPT !.Charset = NameDigits, !.LengthMin = 3, !.LengthMax = 3,
                       !.Token = SignedToken(AlgorithmHS256, k)] :
      k \in { KeyNines, KeyC } }

InitProgress == InitWith(ProgressConfigs)

\* the caller calls Attack once on the engine
FirstAttack == attackNo = 0 /\ Attack

NextProgress ==
  \/ New
  \/ SetProgressCallback
  \/ FirstAttack
  \/ Cancel
  \/ SmartPoll
  \/ SmartTest
  \/ WordlistOpen
  \/ WordlistScan
  \/ WordlistTest
  \/ CharsetStart
  \/ BruteforcePoll
  \/ BruteforceTest

SpecProgress == InitProgress /\ [][NextProgress]_vars

\* ------------------------------------------------------------------------
\* GetStats called from another goroutine at any time after New, as
\* TestGetStats calls it before and after Attack.  The load of the counter
\* is atomic, so a call is one step between two steps of the engine.
\* ------------------------------------------------------------------------
StatsConfigs ==
  { [BaseConfig EXCEPT !.Smart = TRUE, !.Token = SignedToken(AlgorithmHS256, k)] :
      k \in { KeySecret, KeyYour256 } }
  \cup
  { [BaseConfig EXCEPT !.Wordlist = "words.txt", !.Token = SignedToken(AlgorithmHS256, KeyAB)] }
  \cup
  { [BaseConfig EXCEPT !.LengthMax = hi, !.Token = SignedToken(AlgorithmHS256, k)] :
      hi \in 1..MaxLength, k \in { KeyBB, KeyC } }

GetStatsCall ==
  /\ pc \notin { "start", "failed" }
  /\ stats' = << [attempts |-> GetStats[1], mode |-> GetStats[2]] >>
  /\ UNCHANGED << cfg, cfgIsNil, pc, newErr, jwtParts, algorithm, hashFunc, attempts,
                  progressCallback, ctxErr, fileLines, readErrAt, patIdx, lineIdx,
                  charset, length, indices, result, retResult, retErr, ranMode,
                  attackNo, tested, verified, attemptsAtStart, attemptsAtCancel,
                  progressLog, verifyCall, charsetCall, expandCalls, callerVars >>

InitStats == InitWith(StatsConfigs)

NextStats == Next \/ GetStatsCall

SpecStats == InitStats /\ [][NextStats]_vars

\* ------------------------------------------------------------------------
\* The goroutine that runs Attack keeps running: a step of the strategy that
\* can be taken is taken.  Nothing obliges the caller to call Attack, to
\* cancel the context or to let its deadline pass.
\* ------------------------------------------------------------------------
StrategyStep ==
  \/ SmartPoll
  \/ SmartTest
  \/ WordlistOpen
  \/ WordlistScan
  \/ WordlistTest
  \/ CharsetStart
  \/ BruteforcePoll
  \/ BruteforceTest

SpecFair == InitStats /\ [][Next]_vars /\ WF_vars(StrategyStep)

\* ------------------------------------------------------------------------
\* pkg/validator: InputValidator.ValidateCharset and ProcessHashcatCharset.
\* Both range over the map constants.HashcatCharsets, whose iteration order
\* the Go runtime chooses anew on every range: the order is a parameter.
\* ------------------------------------------------------------------------
RuleLower == <<"?", "l">>
RuleUpper == <<"?", "u">>
RuleDigit == <<"?", "d">>
RuleSpecial == <<"?", "s">>
RuleAll == <<"?", "a">>

\* the map constants.HashcatCharsets: its key set and its lookup
HashcatRules == { RuleLower, RuleUpper, RuleDigit, RuleSpecial, RuleAll }

HashcatCharsets(rule) ==
  CASE rule = RuleLower -> CharsetLowercase
    [] rule = RuleUpper -> CharsetUppercase
    [] rule = RuleDigit -> CharsetDigitsOnly
    [] rule = RuleSpecial -> CharsetSpecial
    [] rule = RuleAll -> CharsetPrintableASCII

\* the orders in which a range over the map can yield its keys
RuleOrders ==
  { o \in [1..5 -> HashcatRules] : \A i, j \in 1..5 : i # j => o[i] # o[j] }

\* strings.Contains
Contains(s, sub) ==
  \E i \in 1..(Len(s) - Len(sub) + 1) : SubSeq(s, i, i + Len(sub) - 1) = sub

\* the concatenation of pieces[lo..hi]
RECURSIVE Flatten(_, _, _)
Flatten(pieces, lo, hi) ==
  IF lo > hi THEN << >>
  ELSE IF lo = hi THEN pieces[lo]
  ELSE Flatten(pieces, lo, (lo + hi) \div 2) \o Flatten(pieces, (lo + hi) \div 2 + 1, hi)

\* strings.ReplaceAll for a hashcat rule as old. A rule is "?" and a letter,
\* so no occurrence of it overlaps another and each one is replaced: the
\* character at i starts an occurrence, lies inside one, or is kept.
ReplaceAll(s, old, new) ==
  LET Occurs(i) == i >= 1 /\ i + Len(old) - 1 <= Len(s)
                     /\ SubSeq(s, i, i + Len(old) - 1) = old
      pieces == [i \in 1..Len(s) |->
                   IF Occurs(i) THEN new
                   ELSE IF \E j \in (i - Len(old) + 1)..(i - 1) : Occurs(j) THEN << >>
                   ELSE << s[i] >>]
  IN Flatten(pieces, 1, Len(s))

\* ProcessHashcatCharset: the replacement loop, in the order of the range
RECURSIVE ExpandRules(_, _)
ExpandRules(s, order) ==
  IF order = << >> THEN s
  ELSE ExpandRules(ReplaceAll(s, Head(order), HashcatCharsets(Head(order))),
                   Tail(order))

\* a byte that is no UTF-8 encoding, and the rune a range over a string
\* yields for it
InvalidBytes == { "BYTE_FF" }

Rune(c) == IF c \in InvalidBytes THEN "U+FFFD" ELSE c

\* ProcessHashcatCharset: the loop over the runes of the string with the map
\* seen. A rune is appended when seen does not hold it yet, that is when no
\* earlier position of the string has the same rune.
RemoveDuplicates(s) ==
  LET runes == [i \in 1..Len(s) |-> << i, Rune(s[i]) >>]
      first == SelectSeq(runes, LAMBDA p : \A j \in 1..(p[1] - 1) : Rune(s[j]) # p[2])
  IN [k \in 1..Len(first) |-> first[k][2]]

ProcessHashcatCharset(cs, order) ==
  RemoveDuplicates(ExpandRules(cs, order))

\* utf8.ValidString
ValidString(s) == \A i \in 1..Len(s) : s[i] \notin InvalidBytes

\* InputValidator.ValidateCharset: the message of the error, "" for nil
ValidateCharset(cs, order) ==
  IF cs = << >> THEN "charset cannot be empty"
  ELSE IF cs \in CharsetNames THEN ""
  ELSE LET processedCharset ==
             IF \E rule \in HashcatRules : Contains(cs, rule)
               THEN ProcessHashcatCharset(cs, order)
               ELSE cs
       IN IF Len(processedCharset) = 0 THEN "charset cannot be empty after processing"
          ELSE IF Len(processedCharset) > 1000 THEN "charset too long"
          ELSE IF ~ValidString(processedCharset)
            THEN "charset contains invalid UTF-8 characters"
          ELSE ""

NameInvalid == <<"i", "n", "v", "a", "l", "i", "d">>

\* the charset arguments of TestInputValidator_ValidateCharset, and raw and
\* hashcat-style charsets
CharsetInputs ==
  { NameDigits, NameAlpha, NamePassword, NameFull, NameInvalid, << >>,
    NameHex, <<"a", "b">>, RuleDigit, RuleLower \o RuleDigit, <<"?", "?", "l">>,
    <<"a", "BYTE_FF">>, [i \in 1..1001 |-> "a"] }

\* one call of ValidateCharset, as a caller makes before it builds a Config
ValidateCharsetCall ==
  /\ pc = "start"
  /\ charsetCall = << >>
  /\ expandCalls = << >>
  /\ \E c \in CharsetInputs : \E o \in RuleOrders :
       charsetCall' = << [charset |-> c, order |-> o, err |-> ValidateCharset(c, o)] >>
  /\ UNCHANGED << cfg, cfgIsNil, pc, newErr, jwtParts, algorithm, hashFunc, attempts,
                  progressCallback, ctxErr, fileLines, readErrAt, patIdx, lineIdx,
                  charset, length, indices, result, retResult, retErr, ranMode,
                  attackNo, tested, verified, attemptsAtStart, attemptsAtCancel,
                  progressLog, stats, verifyCall, expandCalls, callerVars >>

\* a call of ProcessHashcatCharset, as validateAttackRequest and
\* createAttackConfig make one each on the charset of a request; the runtime
\* picks the order of the range over the map anew in every call
ProcessHashcatCharsetCall ==
  /\ pc = "start"
  /\ charsetCall = << >>
  /\ Len(expandCalls) < 2
  /\ \E c \in CharsetInputs : \E o \in RuleOrders :
       expandCalls' = Append(expandCalls,
                             [charset |-> c, ret |-> ProcessHashcatCharset(c, o)])
  /\ UNCHANGED << cfg, cfgIsNil, pc, newErr, jwtParts, algorithm, hashFunc, attempts,
                  progressCallback, ctxErr, fileLines, readErrAt, patIdx, lineIdx,
                  charset, length, indices, result, retResult, retErr, ranMode,
                  attackNo, tested, verified, attemptsAtStart, attemptsAtCancel,
                  progressLog, stats, verifyCall, charsetCall, callerVars >>

InitCharset == InitWith({ BaseConfig })

NextCharset == ValidateCharsetCall \/ ProcessHashcatCharsetCall

SpecCharset == InitCharset /\ [][NextCharset]_vars
\* ------------------------------------------------------------------------
\* pkg/validator: JWTValidator.ValidateToken, and the crack command runCrack,
\* which validates its arguments, constructs the engine and calls Attack once.
\* ------------------------------------------------------------------------
\* the token string with white space before and after it: split on ".", its
\* first and last segments hold the white space and are no base64url; inner
\* is the segment without it
Spaced(token) ==
  [i \in 1..Len(token) |->
     IF i \in { 1, Len(token) }
       THEN [b64 |-> FALSE, json |-> FALSE, alg |-> "", bytes |-> << >>, inner |-> token[i]]
       ELSE token[i]]

\* strings.TrimSpace(token), on the segments of the token
TrimToken(token) ==
  [i \in 1..Len(token) |->
     IF "inner" \in DOMAIN token[i] THEN token[i].inner ELSE token[i]]

\* JWTValidator.ValidateToken with validateBase64URLPart, validateHeader and
\* validatePayload: the message of the error, "" for nil
ValidateToken(token) ==
  IF token = << EmptySegment >> THEN "JWT token cannot be empty"
  ELSE LET parts == TrimToken(token) IN
    IF Len(parts) # 3 THEN "JWT token must have exactly 3 parts separated by dots"
    ELSE IF \E i \in 1..3 : parts[i] = EmptySegment THEN "JWT part cannot be empty"
    ELSE IF \E i \in 1..3 : ~parts[i].b64 THEN "JWT part is not valid base64url"
    ELSE IF ~parts[1].json THEN "invalid JWT header: header is not valid JSON"
    ELSE IF parts[1].alg = "" THEN "invalid JWT header: header missing required 'alg' field"
    ELSE IF parts[1].alg \notin { AlgorithmHS256, AlgorithmHS384, AlgorithmHS512 }
      THEN "invalid JWT header: unsupported algorithm"
    ELSE IF ~parts[2].json THEN "invalid JWT payload: payload is not valid JSON"
    ELSE ""

\* the arguments of the crack command, as the Config runCrack builds of them
CrackConfigs ==
  { [BaseConfig EXCEPT !.Smart = TRUE, !.Token = t] :
      t \in { SignedToken(AlgorithmHS256, KeySecret), SignedToken(AlgorithmHS256, KeyA),
              SignedToken(AlgorithmHS512, KeyBB),
              Spaced(SignedToken(AlgorithmHS256, KeySecret)) }
            \cup MalformedTokens \cup UncheckedTokens }
  \cup { [BaseConfig EXCEPT !.Token = SignedToken(AlgorithmHS256, k), !.Charset = c,
                            !.LengthMax = n] :
           k \in { KeyA, KeyBB, KeyC }, c \in { <<"a", "b">>, << >> }, n \in 0..MaxLength }
  \cup { [BaseConfig EXCEPT !.Threads = 65], [BaseConfig EXCEPT !.Performance = "turbo"],
         [BaseConfig EXCEPT !.Wordlist = "words.txt"] }

\* runCrack: the validation of the arguments, the error it returns or nil.
\* The word list drawn is a file that ValidateWordlistFile accepts.
runCrackValidate(c) ==
  IF ValidateToken(c.Token) # ""
    THEN ErrValidation("INVALID_TOKEN", StdError(ValidateToken(c.Token)))
  ELSE IF \E o \in RuleOrders : ValidateCharset(c.Charset, o) # ""
    THEN StdError(ValidateCharset(c.Charset, CHOOSE o \in RuleOrders : ValidateCharset(c.Charset, o) # ""))
  ELSE IF c.LengthMin < 1 THEN StdError("minimum length must be at least 1")
  ELSE IF c.LengthMax < c.LengthMin THEN StdError("maximum length must be >= minimum length")
  ELSE IF c.LengthMax > 20 THEN StdError("maximum length cannot exceed 20")
  ELSE IF c.Threads < 1 THEN StdError("thread count must be at least 1")
  ELSE IF c.Threads > 64 THEN StdError("thread count cannot exceed 64")
  ELSE IF c.Performance \notin { "eco", "balanced", "performance", "maximum" }
    THEN StdError("invalid performance setting")
  ELSE NilError

\* runCrack returns err
runCrackReturns(err) ==
  /\ crackRet = << >>
  /\ crackRet' = << err >>
  /\ UNCHANGED << cfg, cfgIsNil, pc, newErr, jwtParts, algorithm, hashFunc, attempts,
                  progressCallback, ctxErr, fileLines, readErrAt, patIdx, lineIdx,
                  charset, length, indices, result, retResult, retErr, ranMode,
                  attackNo, tested, verified, attemptsAtStart, attemptsAtCancel,
                  progressLog, stats, verifyCall, charsetCall, expandCalls, webVars >>

\* runCrack.  AdjustForPerformance, which it calls before New, is the call New
\* makes again on the same Config and gives the same Threads.  The signal
\* handler and the timeout are the Cancel of the context.
runCrack ==
  \/ /\ pc = "start"
     /\ runCrackValidate(cfg) # NilError
     /\ runCrackReturns(runCrackValidate(cfg))
  \/ /\ crackRet = << >>
     /\ runCrackValidate(cfg) = NilError
     /\ New
  \/ /\ pc = "failed"
     /\ runCrackReturns(NewError("stdlib", "failed to create attack engine", newErr))
  \/ SetProgressCallback
  \/ /\ progressCallback
     /\ FirstAttack
  \/ Cancel
  \/ StrategyStep
  \/ /\ pc = "returned"
     /\ IF retErr = NilError THEN runCrackReturns(NilError)
        ELSE IF retErr = StdError("context.Canceled") THEN runCrackReturns(NilError)
        ELSE IF retErr = StdError("context.DeadlineExceeded") THEN runCrackReturns(NilError)
        ELSE runCrackReturns(NewError("stdlib", "attack failed", retErr))

InitCrack == InitWith(CrackConfigs) /\ ~cfgIsNil

SpecCrack == InitCrack /\ [][runCrack]_vars

\* ------------------------------------------------------------------------
\* pkg/web: the attack session of the web server.  One session is followed:
\* the handler that creates it, the goroutine that runs its attack on an
\* engine, the handlers that stop, query and list it, the health handler and
\* the goroutine that removes it.  A step is what a goroutine does up to its
\* next lock operation; a step that ends in a call of Lock() leaves the
\* goroutine queued on the mutex.
\* ------------------------------------------------------------------------
\* RLock(), the call of Lock() and its return: the mutex after it
Acquire(mu, g, how) ==
  CASE how = "r" -> [mu EXCEPT !.r = @ \cup { g }]
    [] how = "q" -> [mu EXCEPT !.q = @ \cup { g }]
    [] how = "w" -> [mu EXCEPT !.w = g, !.q = @ \ { g }]

\* RLock() returns when no writer holds the mutex or waits for it, Lock()
\* when nobody holds it
Grantable(mu, how) ==
  IF how = "r" THEN mu.w = "" /\ mu.q = { } ELSE mu.w = "" /\ mu.r = { }

\* Unlock() and RUnlock()
Release(mu, g) == [mu EXCEPT !.w = IF @ = g THEN "" ELSE @, !.r = @ \ { g }]

\* a read or write of the map Server.attacks by g, with the hold g has on
\* attacksMu at that moment
Touch(g, write) ==
  access \cup
    { [write |-> write,
       lock |-> IF attacksMu.w = g THEN "w" ELSE IF g \in attacksMu.r THEN "r" ELSE "none"] }

\* the requests POSTed to /api/attack/start
WebRequests ==
  { [Token |-> t, AttackType |-> AttackModeSmart, Wordlist |-> "", Charset |-> << >>,
     LengthMin |-> 0, LengthMax |-> 0, Timeout |-> 0] :
      t \in { SignedToken(AlgorithmHS512, SmartPatterns[2]),
              Spaced(SignedToken(AlgorithmHS256, KeySecret)),
              << HeaderSegment("RS256"), PayloadSegment, GarbageSegment >> } }
  \cup
  { [Token |-> SignedToken(AlgorithmHS512, SmartPatterns[2]), AttackType |-> a,
     Wordlist |-> "", Charset |-> << >>, LengthMin |-> 0, LengthMax |-> 0, Timeout |-> d] :
      a \in { AttackModeSmart, AttackModeWordlist, "hybrid" }, d \in { 60, 3601 } }
  \cup
  { [Token |-> SignedToken(AlgorithmHS256, <<"7">>), AttackType |-> AttackModeCharset,
     Wordlist |-> "", Charset |-> c, LengthMin |-> l, LengthMax |-> 1, Timeout |-> 0] :
      c \in { NameDigits, RuleDigit }, l \in { 1, 2 } }

\* validateAttackRequest: the error it returns.  The word list named exists;
\* no request drawn sets threads or performance.
validateAttackRequest(r, order) ==
  IF ValidateToken(r.Token) # ""
    THEN ErrValidation("INVALID_TOKEN", StdError(ValidateToken(r.Token)))
  ELSE IF r.AttackType \notin { AttackModeSmart, AttackModeWordlist, AttackModeCharset }
    THEN ErrValidation("INVALID_FILE", NilError)
  ELSE IF r.AttackType = AttackModeWordlist /\ r.Wordlist = ""
    THEN ErrValidation("INVALID_FILE", NilError)
  ELSE IF r.Charset # << >> /\ Len(ProcessHashcatCharset(r.Charset, order)) = 0
    THEN ErrValidation("INVALID_FILE", NilError)
  ELSE IF r.Charset # << >> /\ Len(ProcessHashcatCharset(r.Charset, order)) > 1000
    THEN ErrValidation("INVALID_FILE", NilError)
  ELSE IF (r.LengthMin > 0 \/ r.LengthMax > 0)
          /\ LET lengthMin == IF r.LengthMin = 0 THEN 1 ELSE r.LengthMin
                 lengthMax == IF r.LengthMax = 0 THEN 8 ELSE r.LengthMax
             IN lengthMin < 1 \/ lengthMax < lengthMin \/ lengthMax > 20
    THEN StdError("invalid length")
  ELSE IF r.Timeout < 0 \/ r.Timeout > 3600
    THEN ErrValidation("INVALID_TIMEOUT", NilError)
  ELSE NilError

\* createAttackConfig over config.DefaultConfig()
createAttackConfig(r, order) ==
  AdjustForPerformance(
    [ Token |-> r.Token, Wordlist |-> r.Wordlist,
      Charset |-> IF r.Charset # << >> THEN ProcessHashcatCharset(r.Charset, order)
                  ELSE NamePassword,
      LengthMin |-> IF r.LengthMin > 0 THEN r.LengthMin ELSE 1,
      LengthMax |-> IF r.LengthMax > 0 THEN r.LengthMax ELSE 8,
      Threads |-> NumCPU, Performance |-> "balanced",
      Smart |-> r.AttackType = AttackModeSmart, WebPort |-> 8080 ])

\* what the steps of the web server leave alone in the engine and its observers
engineRest ==
  << cfgIsNil, pc, newErr, engineVars, attempts, fileVars, loopVars, result, retVars,
     callVars, tested, verified, progressLog, stats, verifyCall, charsetCall,
     expandCalls, crackRet >>

\* the session is in the map
Listed == attacks # << >> /\ attacks[1].listed

\* broadcastMessage: the message is put on the broadcast channel, or dropped
\* when the channel is full
broadcastMessage(msgType, data) ==
  broadcast' = Append(broadcast, [type |-> msgType, data |-> data])

\* session.Cancel(): the context of the attack is cancelled
CancelFunc ==
  IF ctxErr = "none"
    THEN ctxErr' = "context.Canceled" /\ attemptsAtCancel' = attempts
    ELSE UNCHANGED << ctxErr, attemptsAtCancel >>

\* GetAttackSession called by g at wpc[g] = from
GetAttackSession(g, from) ==
  \/ /\ wpc[g] = from
     /\ Grantable(attacksMu, "r")
     /\ attacksMu' = Acquire(attacksMu, g, "r")
     /\ wpc' = [wpc EXCEPT ![g] = << "get", "read" >>]
     /\ UNCHANGED << engineRest, cfg, ctxErr, attemptsAtCancel, req, attacks, sessionMu,
                     broadcast, access, progressSent >>
  \/ /\ wpc[g] = << "get", "read" >>
     /\ access' = Touch(g, FALSE)
     /\ attacksMu' = Release(attacksMu, g)
     /\ wpc' = [wpc EXCEPT ![g] = << "got", IF Listed THEN "found" ELSE "missing" >>]
     /\ UNCHANGED << engineRest, cfg, ctxErr, attemptsAtCancel, req, attacks, sessionMu,
                     broadcast, progressSent >>

\* the section Lock attacksMu, [look the session up,] Lock session.mu, write
\* the session, Unlock session.mu, Unlock attacksMu, as UpdateAttackProgress,
\* UpdateAttackResult, stopAttackHandler and executeAttack have it; g has
\* called attacksMu.Lock() at wpc[g] = << at, "lockA" >>
LockedUpdate(g, at, lookup, session) ==
  \/ /\ wpc[g] = << at, "lockA" >>
     /\ Grantable(attacksMu, "w")
     /\ attacksMu' = Acquire(attacksMu, g, "w")
     /\ wpc' = [wpc EXCEPT ![g] = << at, "lookup" >>]
     /\ UNCHANGED << engineRest, cfg, ctxErr, attemptsAtCancel, req, attacks, sessionMu,
                     broadcast, access, progressSent >>
  \/ /\ wpc[g] = << at, "lookup" >>
     /\ access' = IF lookup THEN Touch(g, FALSE) ELSE access
     /\ IF lookup /\ ~Listed
          THEN wpc' = [wpc EXCEPT ![g] = << at, "unlockA" >>] /\ UNCHANGED sessionMu
          ELSE /\ wpc' = [wpc EXCEPT ![g] = << at, "lockB" >>]
               /\ sessionMu' = Acquire(sessionMu, g, "q")
     /\ UNCHANGED << engineRest, cfg, ctxErr, attemptsAtCancel, req, attacks, attacksMu,
                     broadcast, progressSent >>
  \/ /\ wpc[g] = << at, "lockB" >>
     /\ Grantable(sessionMu, "w")
     /\ sessionMu' = Acquire(sessionMu, g, "w")
     /\ wpc' = [wpc EXCEPT ![g] = << at, "write" >>]
     /\ UNCHANGED << engineRest, cfg, ctxErr, attemptsAtCancel, req, attacks, attacksMu,
                     broadcast, access, progressSent >>
  \/ /\ wpc[g] = << at, "write" >>
     /\ attacks' = << session >>
     /\ sessionMu' = Release(sessionMu, g)
     /\ wpc' = [wpc EXCEPT ![g] = << at, "unlockA" >>]
     /\ UNCHANGED << engineRest, cfg, ctxErr, attemptsAtCancel, req, attacksMu,
                     broadcast, access, progressSent >>
  \/ /\ wpc[g] = << at, "unlockA" >>
     /\ attacksMu' = Release(attacksMu, g)
     /\ wpc' = [wpc EXCEPT ![g] = << at, "done" >>]
     /\ UNCHANGED << engineRest, cfg, ctxErr, attemptsAtCancel, req, attacks, sessionMu,
                     broadcast, access, progressSent >>

\* startAttackHandler up to its call of AddAttackSession; o1 and o2 are the
\* orders the two ranges over constants.HashcatCharsets of the request take
startAttackHandler ==
  /\ wpc["start"] = << "idle" >>
  /\ \E r \in WebRequests :
     \E o1, o2 \in { o \in RuleOrders : o[2] = RuleLower /\ o[3] = RuleUpper
                                           /\ o[4] = RuleDigit } :
       /\ req' = << r >>
       /\ IF validateAttackRequest(r, o1) # NilError
            THEN /\ wpc' = [wpc EXCEPT !["start"] = << "done", "400" >>]
                 /\ UNCHANGED << cfg, attacks, attacksMu >>
            ELSE /\ cfg' = createAttackConfig(r, o2)
                 /\ attacks' = << [listed |-> FALSE, Status |-> "starting",
                                   Progress |-> 0, Result |-> << >>] >>
                 /\ attacksMu' = Acquire(attacksMu, "start", "q")
                 /\ wpc' = [wpc EXCEPT !["start"] = << "add", "lock" >>]
  /\ UNCHANGED << engineRest, ctxErr, attemptsAtCancel, sessionMu, broadcast, access,
                  progressSent >>

\* AddAttackSession, then the go statement that starts executeAttack and the
\* answer of startAttackHandler
AddAttackSession ==
  \/ /\ wpc["start"] = << "add", "lock" >>
     /\ Grantable(attacksMu, "w")
     /\ attacksMu' = Acquire(attacksMu, "start", "w")
     /\ wpc' = [wpc EXCEPT !["start"] = << "add", "insert" >>]
     /\ UNCHANGED << engineRest, cfg, ctxErr, attemptsAtCancel, req, attacks, sessionMu,
                     broadcast, access, progressSent >>
  \/ /\ wpc["start"] = << "add", "insert" >>
     /\ attacks' = << [attacks[1] EXCEPT !.listed = TRUE] >>
     /\ access' = Touch("start", TRUE)
     /\ attacksMu' = Release(attacksMu, "start")
     /\ wpc' = [wpc EXCEPT !["start"] = << "done", "200" >>, !["exec"] = << "spawned" >>]
     /\ UNCHANGED << engineRest, cfg, ctxErr, attemptsAtCancel, req, sessionMu, broadcast,
                     progressSent >>

\* the AttackResult executeAttack builds from what Attack returned
attackResult ==
  LET r == IF retErr # NilError
             THEN [Success |-> FALSE, Secret |-> << >>, Algorithm |-> "HS256",
                   Attempts |-> 0, AttackMode |-> "error"]
             ELSE retResult[1]
  IN [Success |-> r.Success, Secret |-> r.Secret, Algorithm |-> r.Algorithm,
      Mode |-> r.AttackMode, Attempts |-> r.Attempts, Error |-> retErr]

\* executeAttack with the progress callback it hands to the engine; the
\* callback runs inside the engine's step and UpdateAttackProgress returns
\* before the engine goes on
executeAttack ==
  \/ GetAttackSession("exec", << "spawned" >>)
  \/ /\ wpc["exec"] \in { << "got", "found" >>, << "got", "missing" >> }
     /\ IF wpc["exec"][2] = "missing"
          THEN wpc' = [wpc EXCEPT !["exec"] = << "returned" >>] /\ UNCHANGED attacksMu
          ELSE /\ wpc' = [wpc EXCEPT !["exec"] = << "running", "lockA" >>]
               /\ attacksMu' = Acquire(attacksMu, "exec", "q")
     /\ UNCHANGED << engineRest, cfg, ctxErr, attemptsAtCancel, req, attacks, sessionMu,
                     broadcast, access, progressSent >>
  \/ LockedUpdate("exec", "running", FALSE, [attacks[1] EXCEPT !.Status = "running"])
  \/ /\ wpc["exec"] = << "running", "done" >>
     /\ broadcastMessage("attack_started", [status |-> "running"])
     /\ wpc' = [wpc EXCEPT !["exec"] = << "engine" >>]
     /\ UNCHANGED << engineRest, cfg, ctxErr, attemptsAtCancel, req, attacks, attacksMu,
                     sessionMu, access, progressSent >>
  \/ wpc["exec"] = << "engine" >> /\ New
  \/ /\ wpc["exec"] = << "engine" >>
     /\ pc = "failed"
     /\ wpc' = [wpc EXCEPT !["exec"] = << "returned" >>]
     /\ UNCHANGED << engineRest, cfg, ctxErr, attemptsAtCancel, req, attacks, attacksMu,
                     sessionMu, broadcast, access, progressSent >>
  \/ wpc["exec"] = << "engine" >> /\ SetProgressCallback
  \/ wpc["exec"] = << "engine" >> /\ progressCallback /\ FirstAttack /\ ctxErr' = ctxErr
  \/ wpc["exec"] = << "engine" >> /\ progressSent = Len(progressLog) /\ StrategyStep
  \/ /\ wpc["exec"] = << "engine" >>
     /\ progressSent < Len(progressLog)
     /\ attacksMu' = Acquire(attacksMu, "exec", "q")
     /\ wpc' = [wpc EXCEPT !["exec"] = << "progress", "lockA" >>]
     /\ UNCHANGED << engineRest, cfg, ctxErr, attemptsAtCancel, req, attacks, sessionMu,
                     broadcast, access, progressSent >>
  \/ LockedUpdate("exec", "progress", TRUE,
                  [attacks[1] EXCEPT !.Progress = progressLog[progressSent + 1].attempts])
  \/ /\ wpc["exec"] = << "progress", "done" >>
     /\ broadcastMessage("progress", [Current |-> progressLog[progressSent + 1].attempts])
     /\ progressSent' = progressSent + 1
     /\ wpc' = [wpc EXCEPT !["exec"] = << "engine" >>]
     /\ UNCHANGED << engineRest, cfg, ctxErr, attemptsAtCancel, req, attacks, attacksMu,
                     sessionMu, access >>
  \/ /\ wpc["exec"] = << "engine" >>
     /\ pc = "returned"
     /\ progressSent = Len(progressLog)
     /\ attacksMu' = Acquire(attacksMu, "exec", "q")
     /\ wpc' = [wpc EXCEPT !["exec"] = << "result", "lockA" >>]
     /\ UNCHANGED << engineRest, cfg, ctxErr, attemptsAtCancel, req, attacks, sessionMu,
                     broadcast, access, progressSent >>
  \/ LockedUpdate("exec", "result", TRUE,
                  [attacks[1] EXCEPT !.Result = << attackResult >>, !.Status = "completed"])
  \/ /\ wpc["exec"] = << "result", "done" >>
     /\ broadcastMessage("result", attackResult)
     /\ wpc' = [wpc EXCEPT !["exec"] = << "returned" >>, !["remove"] = << "sleep" >>]
     /\ UNCHANGED << engineRest, cfg, ctxErr, attemptsAtCancel, req, attacks, attacksMu,
                     sessionMu, access, progressSent >>

\* the deadline of context.WithTimeout passes while the attack runs
Deadline ==
  /\ req # << >>
  /\ req[1].Timeout > 0
  /\ Cancel
  /\ ctxErr' = "context.DeadlineExceeded"

\* stopAttackHandler for the session's id
stopAttackHandler ==
  \/ GetAttackSession("stop", << "idle" >>)
  \/ /\ wpc["stop"] = << "got", "missing" >>
     /\ wpc' = [wpc EXCEPT !["stop"] = << "done", "404" >>]
     /\ UNCHANGED << engineRest, cfg, ctxErr, attemptsAtCancel, req, attacks, attacksMu,
                     sessionMu, broadcast, access, progressSent >>
  \/ /\ wpc["stop"] = << "got", "found" >>
     /\ CancelFunc
     /\ attacksMu' = Acquire(attacksMu, "stop", "q")
     /\ wpc' = [wpc EXCEPT !["stop"] = << "stopped", "lockA" >>]
     /\ UNCHANGED << engineRest, cfg, req, attacks, sessionMu, broadcast, access,
                     progressSent >>
  \/ LockedUpdate("stop", "stopped", TRUE, [attacks[1] EXCEPT !.Status = "stopped"])
  \/ /\ wpc["stop"] = << "stopped", "done" >>
     /\ broadcastMessage("attack_stopped", [message |-> "Attack stopped by user"])
     /\ wpc' = [wpc EXCEPT !["stop"] = << "done", "200" >>]
     /\ UNCHANGED << engineRest, cfg, ctxErr, attemptsAtCancel, req, attacks, attacksMu,
                     sessionMu, access, progressSent >>

\* attackStatusHandler reading len(s.attacks) under attacksMu while it holds
\* the session's lock
attackStatusHandlerCountsAttacks ==
  \/ GetAttackSession("status", << "idle" >>)
  \/ /\ wpc["status"] = << "got", "missing" >>
     /\ wpc' = [wpc EXCEPT !["status"] = << "done", "404" >>]
     /\ UNCHANGED << engineRest, cfg, ctxErr, attemptsAtCancel, req, attacks, attacksMu,
                     sessionMu, broadcast, access, progressSent >>
  \/ /\ wpc["status"] = << "got", "found" >>
     /\ Grantable(sessionMu, "r")
     /\ sessionMu' = Acquire(sessionMu, "status", "r")
     /\ wpc' = [wpc EXCEPT !["status"] = << "session", "read" >>]
     /\ UNCHANGED << engineRest, cfg, ctxErr, attemptsAtCancel, req, attacks, attacksMu,
                     broadcast, access, progressSent >>
  \/ /\ wpc["status"] = << "session", "read" >>
     /\ Grantable(attacksMu, "r")
     /\ attacksMu' = Acquire(attacksMu, "status", "r")
     /\ wpc' = [wpc EXCEPT !["status"] = << "session", "count" >>]
     /\ UNCHANGED << engineRest, cfg, ctxErr, attemptsAtCancel, req, attacks, sessionMu,
                     broadcast, access, progressSent >>
  \/ /\ wpc["status"] = << "session", "count" >>
     /\ access' = Touch("status", FALSE)
     /\ attacksMu' = Release(attacksMu, "status")
     /\ sessionMu' = Release(sessionMu, "status")
     /\ wpc' = [wpc EXCEPT !["status"] = << "done", attacks[1].Status >>]
     /\ UNCHANGED << engineRest, cfg, ctxErr, attemptsAtCancel, req, attacks, broadcast,
                     progressSent >>

\* attackStatusHandler for the session's id: the status it answers is kept
attackStatusHandler ==
  \/ GetAttackSession("status", << "idle" >>)
  \/ /\ wpc["status"] = << "got", "missing" >>
     /\ wpc' = [wpc EXCEPT !["status"] = << "done", "404" >>]
     /\ UNCHANGED << engineRest, cfg, ctxErr, attemptsAtCancel, req, attacks, attacksMu,
                     sessionMu, broadcast, access, progressSent >>
  \/ /\ wpc["status"] = << "got", "found" >>
     /\ Grantable(sessionMu, "r")
     /\ sessionMu' = Acquire(sessionMu, "status", "r")
     /\ wpc' = [wpc EXCEPT !["status"] = << "session", "read" >>]
     /\ UNCHANGED << engineRest, cfg, ctxErr, attemptsAtCancel, req, attacks, attacksMu,
                     broadcast, access, progressSent >>
  \/ /\ wpc["status"] = << "session", "read" >>
     /\ sessionMu' = Release(sessionMu, "status")
     /\ wpc' = [wpc EXCEPT !["status"] = << "done", attacks[1].Status >>]
     /\ UNCHANGED << engineRest, cfg, ctxErr, attemptsAtCancel, req, attacks, attacksMu,
                     broadcast, access, progressSent >>

\* listAttacksHandler
listAttacksHandler ==
  \/ /\ wpc["list"] = << "idle" >>
     /\ Grantable(attacksMu, "r")
     /\ attacksMu' = Acquire(attacksMu, "list", "r")
     /\ wpc' = [wpc EXCEPT !["list"] = << "range" >>]
     /\ UNCHANGED << engineRest, cfg, ctxErr, attemptsAtCancel, req, attacks, sessionMu,
                     broadcast, access, progressSent >>
  \/ /\ wpc["list"] = << "range" >>
     /\ access' = Touch("list", FALSE)
     /\ wpc' = [wpc EXCEPT !["list"] = IF Listed THEN << "session", "rlock" >>
                                       ELSE << "unlock" >>]
     /\ UNCHANGED << engineRest, cfg, ctxErr, attemptsAtCancel, req, attacks, attacksMu,
                     sessionMu, broadcast, progressSent >>
  \/ /\ wpc["list"] = << "session", "rlock" >>
     /\ Grantable(sessionMu, "r")
     /\ sessionMu' = Acquire(sessionMu, "list", "r")
     /\ wpc' = [wpc EXCEPT !["list"] = << "session", "read" >>]
     /\ UNCHANGED << engineRest, cfg, ctxErr, attemptsAtCancel, req, attacks, attacksMu,
                     broadcast, access, progressSent >>
  \/ /\ wpc["list"] = << "session", "read" >>
     /\ sessionMu' = Release(sessionMu, "list")
     /\ wpc' = [wpc EXCEPT !["list"] = << "unlock" >>]
     /\ UNCHANGED << engineRest, cfg, ctxErr, attemptsAtCancel, req, attacks, attacksMu,
                     broadcast, access, progressSent >>
  \/ /\ wpc["list"] = << "unlock" >>
     /\ attacksMu' = Release(attacksMu, "list")
     /\ wpc' = [wpc EXCEPT !["list"] = << "done" >>]
     /\ UNCHANGED << engineRest, cfg, ctxErr, attemptsAtCancel, req, attacks, sessionMu,
                     broadcast, access, progressSent >>

\* healthHandler: len(s.attacks) is read with no lock taken
healthHandler ==
  /\ wpc["health"] = << "idle" >>
  /\ access' = Touch("health", FALSE)
  /\ wpc' = [wpc EXCEPT !["health"] = << "done" >>]
  /\ UNCHANGED << engineRest, cfg, ctxErr, attemptsAtCancel, req, attacks, attacksMu,
                  sessionMu, broadcast, progressSent >>

\* RemoveAttackSession, called by the goroutine executeAttack leaves behind
RemoveAttackSession ==
  \/ /\ wpc["remove"] = << "sleep" >>
     /\ attacksMu' = Acquire(attacksMu, "remove", "q")
     /\ wpc' = [wpc EXCEPT !["remove"] = << "lock" >>]
     /\ UNCHANGED << engineRest, cfg, ctxErr, attemptsAtCancel, req, attacks, sessionMu,
                     broadcast, access, progressSent >>
  \/ /\ wpc["remove"] = << "lock" >>
     /\ Grantable(attacksMu, "w")
     /\ attacksMu' = Acquire(attacksMu, "remove", "w")
     /\ wpc' = [wpc EXCEPT !["remove"] = << "delete" >>]
     /\ UNCHANGED << engineRest, cfg, ctxErr, attemptsAtCancel, req, attacks, sessionMu,
                     broadcast, access, progressSent >>
  \/ /\ wpc["remove"] = << "delete" >>
     /\ access' = Touch("remove", TRUE)
     /\ IF Listed
          THEN CancelFunc /\ attacks' = << [attacks[1] EXCEPT !.listed = FALSE] >>
          ELSE UNCHANGED << ctxErr, attemptsAtCancel, attacks >>
     /\ attacksMu' = Release(attacksMu, "remove")
     /\ wpc' = [wpc EXCEPT !["remove"] = << "done" >>]
     /\ UNCHANGED << engineRest, cfg, req, sessionMu, broadcast, progressSent >>

\* the server is up and no request has arrived: the Config the engine will
\* get is the one createAttackConfig builds
InitWeb == InitWith({ BaseConfig }) /\ ~cfgIsNil

NextWeb ==
  \/ startAttackHandler
  \/ AddAttackSession
  \/ executeAttack
  \/ Deadline
  \/ stopAttackHandler
  \/ attackStatusHandler
  \/ listAttacksHandler
  \/ healthHandler
  \/ RemoveAttackSession

SpecWeb == InitWeb /\ [][NextWeb]_vars

\* Every handler that was called and every goroutine that was started runs
\* while it can; the requests for stop, status, list and health arrive.
SpecWebFair ==
  SpecWeb /\ WF_vars(AddAttackSession \/ executeAttack \/ stopAttackHandler
                        \/ attackStatusHandler \/ listAttacksHandler
                        \/ healthHandler \/ RemoveAttackSession)

\* ------------------------------------------------------------------------
\* Properties
\* ------------------------------------------------------------------------
\* the key the token was signed with
TokenKey == jwtParts[3].bytes[2]

\* the program points of each strategy function
StrategyLabels(mode) ==
  CASE mode = AttackModeSmart -> { "smartLoop", "smartTest" }
    [] mode = AttackModeWordlist -> { "wordlistOpen", "wordlistLoop", "wordlistTest" }
    [] mode = AttackModeCharset -> { "charsetStart", "bruteforceLoop", "bruteforceTest" }
    [] OTHER -> { }

RECURSIVE Pow(_, _)
Pow(b, e) == IF e = 0 THEN 1 ELSE b * Pow(b, e - 1)

RECURSIVE SumPow(_, _, _)
SumPow(b, lo, hi) == IF lo > hi THEN 0 ELSE Pow(b, lo) + SumPow(b, lo + 1, hi)

\* the number an index vector denotes in base k, first position most significant
RECURSIVE Value(_, _)
Value(idx, k) ==
  IF idx = << >> THEN 0
  ELSE Value(SubSeq(idx, 1, Len(idx) - 1), k) * k + idx[Len(idx)]

Chars(s) == { s[i] : i \in 1..Len(s) }

\* C1: each Attack call runs the one strategy the precedence smart, word
\* list, charset selects, and Result.AttackMode and the mode of GetStats name
\* the strategy that ran, whatever the other fields of the configuration are.
C1_ModeNamesStrategy ==
  ranMode # "none" =>
    /\ ranMode = IF cfg.Smart THEN "smart"
                 ELSE IF cfg.Wordlist # "" THEN "wordlist" ELSE "charset"
    /\ Running => pc \in StrategyLabels(ranMode)
    /\ GetStats[2] = ranMode
    /\ retResult # << >> => retResult[1].AttackMode = ranMode

\* a smart attack returned its Result although a word list is configured
C1_Witness ==
  /\ pc = "returned"
  /\ retResult # << >>
  /\ cfg.Smart /\ cfg.Wordlist # "" /\ cfg.Charset = NameDigits
  /\ ranMode = "smart"
  /\ tested # << >>

\* the token's key is a string over the resolved charset of a length within
\* [LengthMin, LengthMax]
C2_KeyInRange ==
  /\ Len(TokenKey) >= cfg.LengthMin
  /\ Len(TokenKey) <= cfg.LengthMax
  /\ Chars(TokenKey) \subseteq Chars(charset)

TestedOfLength(n) == { i \in 1..Len(tested) : Len(tested[i].cand) = n }

\* the charset strategy has just finished the length n without a match
C3_LengthFinished(n) ==
  /\ ranMode = "charset"
  /\ tested # << >>
  /\ Len(tested[Len(tested)].cand) = n
  /\ \/ pc = "bruteforceLoop" /\ length = n + 1
     \/ pc = "returned" /\ retErr = NilError /\ retResult # << >>
          /\ ~retResult[1].Success

\* C3: for every charset of size K that Config.Validate accepts and every
\* length L, when no candidate matches, the charset strategy tests exactly
\* K^L distinct candidates of length L before it goes on to length L+1, the
\* first made of the first character only and the last of the last character
\* only.
C3_OdometerDistinct ==
  \A n \in 1..20 :
    C3_LengthFinished(n) =>
      LET at == TestedOfLength(n)
          first == CHOOSE i \in at : \A j \in at : i <= j
          last == CHOOSE i \in at : \A j \in at : j <= i
      IN /\ Cardinality(at) = Pow(Len(charset), n)
         /\ Cardinality({ tested[i].cand : i \in at }) = Pow(Len(charset), n)
         /\ tested[first].cand = [k \in 1..n |-> charset[1]]
         /\ tested[last].cand = [k \in 1..n |-> charset[Len(charset)]]

\* b is the index vector tested right after a: the next of the same length
\* in the order of the numbers the vectors denote (last position least
\* significant), or the first of the next length after the last of a length
C4_Follows(a, b, k, hi) ==
  \/ /\ Len(b) = Len(a)
     /\ Value(b, k) = Value(a, k) + 1
  \/ /\ Len(b) = Len(a) + 1
     /\ Len(b) <= hi
     /\ Value(a, k) = Pow(k, Len(a)) - 1
     /\ Value(b, k) = 0

\* C4: the charset strategy tests candidates in ascending length from
\* LengthMin to LengthMax and within a length in lexicographic order of the
\* charset indices, the last position varying fastest; a candidate of length
\* L+1 is tested only after all candidates of length L.  The log only grows
\* by appending, so the property of its last two entries in every reachable
\* state is the property of every two neighbours.
C4_CharsetOrder ==
  (ranMode = "charset" /\ tested # << >>) =>
    LET n == Len(tested)
        cur == tested[n]
    IN /\ Len(cur.at) >= cfg.LengthMin
       /\ Len(cur.at) <= cfg.LengthMax
       /\ \A i \in 1..Len(cur.at) : cur.at[i] \in 0..(Len(charset) - 1)
       /\ cur.cand = [i \in 1..Len(cur.at) |-> charset[cur.at[i] + 1]]
       /\ n = 1 => cur.at = [i \in 1..cfg.LengthMin |-> 0]
       /\ n > 1 => C4_Follows(tested[n - 1].at, cur.at, Len(charset), cfg.LengthMax)

\* the first candidate of length 2 was tested after the last one of length 1,
\* and the last position has carried into the first
C4_Witness ==
  /\ ranMode = "charset" /\ Len(charset) = 3
  /\ Len(tested) = 7
  /\ tested[1].at = <<0>> /\ tested[3].at = <<2>>
  /\ tested[4].at = <<0, 0>> /\ tested[7].at = <<1, 0>>

\* the charset attack ran over one length with a key that is no string of
\* that length over the charset, and the context was not cancelled
C5_Exhausted ==
  /\ pc = "returned" /\ ranMode = "charset" /\ ctxErr = "none"
  /\ cfg.LengthMin = cfg.LengthMax
  /\ ~C2_KeyInRange

\* C5 as claimed: the charset strategy over min = max = L with a key not
\* expressible in the charset and length returns success = false with a nil
\* error and Result.Attempts = K^L exactly.
C5_ExhaustionExact ==
  C5_Exhausted =>
    /\ retErr = NilError
    /\ retResult # << >>
    /\ ~retResult[1].Success
    /\ retResult[1].Attempts = Pow(Len(charset), cfg.LengthMin)

\* C5 as amended: it returns success = false with a nil error, and
\* Result.Attempts is K^L more than the counter was when Attack was called:
\* K^L exactly on a fresh engine.
C5_ExhaustionFromStart ==
  C5_Exhausted =>
    /\ retErr = NilError
    /\ retResult # << >>
    /\ ~retResult[1].Success
    /\ retResult[1].Secret = << >>
    /\ retResult[1].Attempts = attemptsAtStart + Pow(Len(charset), cfg.LengthMin)
    /\ attackNo = 1 => retResult[1].Attempts = Pow(Len(charset), cfg.LengthMin)

\* a second attack over "ab" and length 2 is exhausted after a first one was
C5_Witness ==
  /\ C5_Exhausted
  /\ charset = <<"a", "b">> /\ cfg.LengthMin = 2
  /\ attackNo = 2 /\ attemptsAtStart = 4
  /\ retResult # << >>
  /\ retResult[1].Attempts = 8

\* the last link of an error's chain
RootCause(err) == err[Len(err)]

\* Attack returned because a strategy returned ctx.Err()
C6_Cancelled ==
  /\ pc = "returned"
  /\ retErr # NilError
  /\ RootCause(retErr).Code \in { "context.Canceled", "context.DeadlineExceeded" }

\* C6: when the context is cancelled or its deadline passes during a strategy
\* loop, Attack returns a Result with success = false together with an error
\* that is told apart from exhaustion (a nil error) and from a generic attack
\* failure (the attack error of code ATTACK_EXECUTION).
C6_CancelledResult ==
  C6_Cancelled =>
    /\ retResult # << >>
    /\ ~retResult[1].Success
    /\ retErr[1] # [Type |-> "attack", Code |-> "ATTACK_EXECUTION"]

\* C7: the loops poll the context before each candidate, so once the context
\* is cancelled at most one more candidate, the one in progress, is verified
\* and the counter grows by at most 1 until Attack returns.
C7_CancelPrompt ==
  (ranMode # "none" /\ ctxErr # "none") =>
    /\ attempts <= attemptsAtCancel + 1
    /\ Len(tested) <= (attemptsAtCancel - attemptsAtStart) + 1
    /\ pc \in { "smartTest", "wordlistTest", "bruteforceTest" } =>
         attempts = attemptsAtCancel

\* the deadline passed while a line was being tested; that line was counted
\* and the attack returned at the next poll
C7_Witness ==
  /\ pc = "returned" /\ ranMode = "wordlist"
  /\ ctxErr = "context.DeadlineExceeded"
  /\ retErr # NilError
  /\ attemptsAtCancel > attemptsAtStart
  /\ attempts = attemptsAtCancel + 1
  /\ lineIdx <= Len(fileLines)

\* C8: the counter is 0 on a freshly constructed engine, goes up by exactly
\* one for each candidate passed to the verifier and for nothing else (no poll
\* of the context, no skipped blank line), never goes down and is never reset.
C8_Counter ==
  /\ [](attempts = verified /\ (attackNo = 0 => attempts = 0))
  /\ [][ /\ attempts' >= attempts
         /\ attempts' - attempts = verified' - verified
         /\ attempts' - attempts \in { 0, 1 }
         /\ attempts' = attempts + 1 =>
              /\ pc \in { "smartTest", "wordlistTest", "bruteforceTest" }
              /\ tested' = Append(tested, tested'[Len(tested')])
         /\ pc \in { "smartLoop", "wordlistOpen", "wordlistLoop", "charsetStart",
                     "bruteforceLoop", "idle", "returned" } => attempts' = attempts
       ]_vars

\* a second attack on the engine counts on from the first one's attempts, and
\* blank lines of the word list were passed over
C8_Witness ==
  /\ attackNo = 2 /\ ranMode = "wordlist"
  /\ fileLines = FileWithBlanks
  /\ attemptsAtStart > 0
  /\ attempts = attemptsAtStart + 2
  /\ lineIdx = 6

\* the numbers of the lines, among the first k, that are not blank once trimmed
C9_NonBlank(k) == { i \in 1..k : TrimRight(TrimLeft(fileLines[i])) # << >> }

\* the numbers of the lines that are not skipped as blank and whose trimmed
\* text is the key of the token
C9_Matching ==
  { i \in C9_NonBlank(Len(fileLines)) : TrimRight(TrimLeft(fileLines[i])) = TokenKey }

C9_FirstMatch == CHOOSE i \in C9_Matching : \A j \in C9_Matching : i <= j

\* C9: the dictionary strategy tests the lines in file order after trimming
\* and skips, without counting, the lines that are blank once trimmed; when a
\* line matches (and is reached: the context is not cancelled and no read
\* fails before it), Attack returns success with the first matching trimmed
\* line as Secret, on a fresh engine with Attempts the number of non-blank
\* lines up to and including it, and tests no later line.
C9_Dictionary ==
  ranMode = "wordlist" =>
    /\ \A j \in 1..Len(tested) :
         /\ tested[j].cand = TrimRight(TrimLeft(fileLines[tested[j].at[1]]))
         /\ tested[j].cand # << >>
         /\ Cardinality(C9_NonBlank(tested[j].at[1])) = j
    /\ (pc = "returned" /\ ctxErr = "none" /\ C9_Matching # { }
          /\ (readErrAt = 0 \/ readErrAt > C9_FirstMatch)) =>
         /\ retErr = NilError
         /\ retResult # << >>
         /\ retResult[1].Success
         /\ retResult[1].Secret = TrimRight(TrimLeft(fileLines[C9_FirstMatch]))
         /\ attackNo = 1 =>
              retResult[1].Attempts = Cardinality(C9_NonBlank(C9_FirstMatch))
         /\ tested[Len(tested)].at = << C9_FirstMatch >>

\* the key "ab" is found on the sixth line, the third that is not blank, the
\* line being trimmed of its leading tab
C9_Witness ==
  /\ pc = "returned" /\ ranMode = "wordlist" /\ attackNo = 1
  /\ fileLines = FileWithBlanks
  /\ retResult # << >>
  /\ retResult[1].Success
  /\ retResult[1].Secret = KeyAB
  /\ retResult[1].Attempts = 3
  /\ Len(tested) = 3

\* the word list could not be opened, or a Scan failed with a read error
C10_OpenFailed ==
  pc = "returned" /\ retErr # NilError /\ RootCause(retErr).Code = "os.Open"

C10_ReadFailed ==
  pc = "returned" /\ retErr # NilError /\ RootCause(retErr).Code = "scanner.Err"

\* C10: when the dictionary file cannot be opened or a read fails midway,
\* Attack fails with an error of the file kind, which IsFileError tells apart
\* from a cancellation and from a negative Result; when the open fails no
\* candidate is tested.
C10_FileErrorKind ==
  (C10_OpenFailed \/ C10_ReadFailed) =>
    /\ retResult = << >>
    /\ IsFileError(retErr)
    /\ C10_OpenFailed => tested = << >>

\* the positions of the pattern list that hold the secret the token is signed with
C11_Positions ==
  { i \in 1..Len(SmartPatterns) : jwtParts = SignedToken(algorithm, SmartPatterns[i]) }

C11_First == CHOOSE i \in C11_Positions : \A j \in C11_Positions : i <= j

\* C11: the curated strategy tests the fixed pattern list in list order; when
\* the secret is in the list (and the context is not found cancelled before
\* it is reached), Attack returns success with that secret, with Attempts the
\* 1-based position of its first occurrence on a fresh engine (15 for
\* "your-256-bit-secret") and that many more than the counter held on a
\* reused one, and no later pattern is tested.
C11_PatternOrder ==
  ranMode = "smart" =>
    /\ \A j \in 1..Len(tested) :
         tested[j].at = << j >> /\ tested[j].cand = SmartPatterns[j]
    /\ (pc = "returned" /\ ~C6_Cancelled /\ C11_Positions # { }) =>
         /\ retErr = NilError
         /\ retResult # << >>
         /\ retResult[1].Success
         /\ retResult[1].Secret = SmartPatterns[C11_First]
         /\ retResult[1].Attempts = attemptsAtStart + C11_First
         /\ attackNo = 1 => retResult[1].Attempts = C11_First
         /\ Len(tested) = C11_First
         /\ jwtParts = SignedToken(AlgorithmHS256, KeyYour256) =>
              retResult[1].Secret = KeyYour256 /\ C11_First = 15

\* "your-256-bit-secret" is found by a fresh engine as the 15th attempt
C11_Witness ==
  /\ pc = "returned" /\ ranMode = "smart" /\ attackNo = 1
  /\ retResult # << >>
  /\ retResult[1].Success
  /\ retResult[1].Secret = KeyYour256
  /\ retResult[1].Attempts = 15
  /\ Len(tested) = 15

\* C12: for any secret S and any of HS256, HS384 and HS512, on a token built
\* by signing header.payload with S, verifySecret(S) reports a match and
\* verifySecret(C) reports none for every candidate C of the test set other
\* than S; a call of verifySecret changes no field of the engine.
C12_RoundTrip ==
  /\ [](verifyCall # << >> =>
          \A S \in TestSecrets : \A a \in Algorithms :
            cfg.Token = SignedToken(a, S) =>
              /\ algorithm = a
              /\ verifyCall[1].ret <=> (verifyCall[1].secret = S))
  /\ [][verifyCall' # verifyCall =>
          UNCHANGED << cfg, jwtParts, algorithm, hashFunc, attempts, progressCallback >>
       ]_vars

\* on a token signed with "your-256-bit-secret" under HS384 that secret was
\* just reported as a match
C12_Witness ==
  /\ verifyCall # << >>
  /\ cfg.Token = SignedToken(AlgorithmHS384, KeyYour256)
  /\ hashFunc = "sha512.New384"
  /\ verifyCall[1].secret = KeyYour256
  /\ verifyCall[1].ret

\* the header segment decodes to a JSON header whose alg is not supported
C13_UnsupportedAlg ==
  /\ Len(cfg.Token) = 3
  /\ cfg.Token[1].b64 /\ cfg.Token[1].json
  /\ cfg.Token[1].alg \notin Algorithms

\* C13: New on a token that does not have exactly 3 segments fails with an
\* error of the structural/validation kind (a validation or a configuration
\* error), and on a header alg outside HS256, HS384, HS512 with an error of
\* the unsupported-algorithm kind; whenever New fails there is no engine and
\* a non-nil error, and no candidate is ever tested.
C13_Rejection ==
  (pc # "start" /\ ~cfgIsNil) =>
    /\ Len(cfg.Token) # 3 =>
         pc = "failed" /\ newErr # NilError
           /\ newErr[1].Type \in { "validation", "config" }
    /\ (Validate(cfg) = "" /\ C13_UnsupportedAlg) =>
         pc = "failed" /\ newErr # NilError /\ newErr[1].Type = "algorithm"
    /\ pc = "failed" =>
         newErr # NilError /\ jwtParts = << >> /\ attempts = 0 /\ tested = << >>

\* C14: New constructs an engine only if all three segments of the token
\* decode as unpadded base64url and the header and the payload decode to JSON
\* objects; a token of three segments whose payload or signature segment
\* holds characters outside base64url is rejected by New.
C14_TokenInvariant ==
  /\ pc \notin { "start", "failed" } =>
       /\ Len(jwtParts) = 3
       /\ \A i \in 1..3 : jwtParts[i].b64
       /\ jwtParts[1].json /\ jwtParts[2].json
  /\ (pc # "start" /\ ~cfgIsNil /\ Len(cfg.Token) = 3
         /\ (~cfg.Token[2].b64 \/ ~cfg.Token[3].b64)) => pc = "failed"

\* C15: Attack returns Success = true only with a nil error and with Secret
\* a candidate that verifySecret accepted during that call; whenever
\* Success = false the Secret is empty; a successful Result never comes with
\* an error.
C15_ResultIntegrity ==
  /\ ~result.Success => result.Secret = << >>
  /\ pc = "returned" =>
       /\ retErr # NilError => retResult = << >>
       /\ retResult # << >> =>
            /\ retErr = NilError
            /\ retResult[1].Success =>
                 /\ tested # << >>
                 /\ retResult[1].Secret = tested[Len(tested)].cand
                 /\ verifySecret(retResult[1].Secret)
                 /\ retResult[1].Attempts = attempts
            /\ ~retResult[1].Success => retResult[1].Secret = << >>
  /\ pc # "returned" => retResult = << >> /\ ~result.Success

\* the charset attack returned the key "bb" of an HS512 token with a nil error
C15_Witness ==
  /\ pc = "returned" /\ ranMode = "charset" /\ algorithm = AlgorithmHS512
  /\ retErr = NilError
  /\ retResult # << >>
  /\ retResult[1].Success
  /\ retResult[1].Secret = KeyBB
  /\ tested[Len(tested)].cand = KeyBB

\* the callback is due after a non-matching attempt that left the counter at n
C16_Due(n) ==
  CASE ranMode = AttackModeSmart -> TRUE
    [] ranMode = AttackModeWordlist -> n % 100 = 0
    [] ranMode = AttackModeCharset -> n % 1000 = 0

\* what a step does to the callback's log: a step that tests a candidate
\* appends the counter's new value when the callback is set, the candidate
\* did not match and the cadence is due, and leaves the log alone otherwise;
\* no other step but the start of the next Attack touches the log
C16_Step ==
  IF Len(tested') = Len(tested) + 1
    THEN IF progressCallback /\ C16_Due(attempts')
              /\ ~verifySecret(tested'[Len(tested')].cand)
           THEN /\ Len(progressLog') = Len(progressLog) + 1
                /\ SubSeq(progressLog', 1, Len(progressLog)) = progressLog
                /\ progressLog'[Len(progressLog')].attempts = attempts'
                /\ attempts' = attemptsAtStart + Len(tested')
           ELSE progressLog' = progressLog
    ELSE \/ progressLog' = progressLog
         \/ attackNo' = attackNo + 1 /\ progressLog' = << >>

\* C16: with a callback registered, it is invoked after every non-matching
\* attempt of the curated strategy and after exactly those non-matching
\* attempts whose counter value is a multiple of 100 in the dictionary
\* strategy and of 1000 in the charset strategy; never for the matching
\* attempt, never with attempts = 0 or an empty status, and with strictly
\* increasing attempts within one Attack.
C16_ProgressProtocol ==
  /\ []( /\ ~progressCallback => progressLog = << >>
         /\ \A i \in 1..Len(progressLog) :
              /\ progressLog[i].attempts > 0
              /\ progressLog[i].status # << >>
              /\ progressLog[i].status[1] # ""
              /\ i > 1 => progressLog[i - 1].attempts < progressLog[i].attempts )
  /\ [][C16_Step]_vars

\* the dictionary attack read the long word list to its end without a match
\* and the callback was invoked once, for the 100th attempt, made on line 101
C16_Witness ==
  /\ pc = "returned" /\ ranMode = "wordlist" /\ progressCallback
  /\ fileLines = BigFileMiss
  /\ retResult # << >>
  /\ ~retResult[1].Success
  /\ Len(tested) >= 100
  /\ tested[100].at = << 101 >>
  /\ progressLog = << [attempts |-> 100, status |-> << "Tested passwords", 100 >>] >>

C18_Succeeded == retErr = NilError /\ retResult # << >> /\ retResult[1].Success

C18_Exhausted == retErr = NilError /\ retResult # << >> /\ ~retResult[1].Success

C18_CancelledOrFailed == retErr # NilError

\* C18: every Attack call on the finite pattern list, a finite word list or a
\* finite alphabet and length range returns, also when the context is never
\* cancelled, and it returns in exactly one of the outcomes Succeeded
\* (success, nil error), Exhausted (no success, nil error) and Cancelled or
\* Failed (non-nil error).
C18_Termination ==
  /\ [](Running => <>(pc = "returned"))
  /\ [](pc = "returned" =>
          /\ C18_Succeeded \/ C18_Exhausted \/ C18_CancelledOrFailed
          /\ ~(C18_Succeeded /\ C18_Exhausted)
          /\ ~(C18_Succeeded /\ C18_CancelledOrFailed)
          /\ ~(C18_Exhausted /\ C18_CancelledOrFailed)
          /\ (ctxErr = "none" /\ ranMode # "wordlist") =>
               C18_Succeeded \/ C18_Exhausted)

\* the charset attack over "ab" up to length 2 returned exhausted, the
\* context never having been cancelled
C18_Witness ==
  /\ pc = "returned" /\ ranMode = "charset" /\ ctxErr = "none"
  /\ cfg.LengthMax = 2
  /\ C18_Exhausted
  /\ Len(tested) = 6

\* C19: the configuration is immutable once handed to the engine: no step of
\* New or Attack changes a field of the caller's Config, Threads included,
\* and a Config that passed Validate before New passes it after New.
C19_ConfigImmutable ==
  [][ /\ cfg' = cfg
      /\ cfg'.Threads = cfg.Threads
      /\ Validate(cfg) = "" => Validate(cfg') = ""
    ]_vars

\* C20: ValidateCharset accepts the predefined charset names digits, alpha,
\* password and full, and returns an error for the empty string and for a
\* name that is not a predefined charset, such as "invalid".
C20_CharsetNames ==
  charsetCall # << >> =>
    /\ charsetCall[1].charset \in { NameDigits, NameAlpha, NamePassword, NameFull } =>
         charsetCall[1].err = ""
    /\ charsetCall[1].charset = << >> => charsetCall[1].err # ""
    /\ charsetCall[1].charset = NameInvalid => charsetCall[1].err # ""

\* C22: ProcessHashcatCharset is a function of its input: two calls on the
\* same charset string return the same working alphabet, whatever the order
\* in which each call applies the placeholder rules.
C22_ExpansionIsFunction ==
  \A i, j \in 1..Len(expandCalls) :
    expandCalls[i].charset = expandCalls[j].charset =>
      expandCalls[i].ret = expandCalls[j].ret

\* C23 as claimed: Result.Attempts of every Attack call is the number of
\* candidates tested during that call, and the callback is given the attempts
\* of that call, also when Attack is called again on the same engine.
C23_AttemptsOfCall ==
  /\ (pc = "returned" /\ retResult # << >>) => retResult[1].Attempts = Len(tested)
  /\ \A i \in 1..Len(progressLog) : progressLog[i].attempts \in 1..Len(tested)

\* C23 as amended: Result.Attempts of an Attack call is the engine's counter,
\* the attempts counted before the call plus the candidates tested during it,
\* and the callback is given values of that counter: both count the call's
\* own candidates on the first Attack of an engine only.
C23_AttemptsOfEngine ==
  /\ (pc = "returned" /\ retResult # << >>) =>
       /\ retResult[1].Attempts = attemptsAtStart + Len(tested)
       /\ attackNo = 1 => retResult[1].Attempts = Len(tested)
  /\ \A i \in 1..Len(progressLog) :
       /\ progressLog[i].attempts \in (attemptsAtStart + 1)..(attemptsAtStart + Len(tested))
       /\ ~verifySecret(tested[progressLog[i].attempts - attemptsAtStart].cand)
       /\ ranMode = AttackModeSmart => progressLog[i].attempts = attemptsAtStart + i
       /\ ranMode = AttackModeWordlist => progressLog[i].attempts % WordlistProgressFreq = 0
       /\ ranMode = AttackModeCharset => progressLog[i].attempts % CharsetProgressFreq = 0

\* the second smart attack on an engine went through the whole pattern list
\* after an earlier call had counted attempts: the callback was first given
\* the counter of the call's first candidate, the result holds the counter
C23_Witness ==
  /\ pc = "returned" /\ ranMode = AttackModeSmart /\ attackNo = 2
  /\ attemptsAtStart > 0
  /\ retResult # << >>
  /\ ~retResult[1].Success
  /\ Len(tested) = Len(SmartPatterns)
  /\ retResult[1].Attempts = attemptsAtStart + Len(SmartPatterns)
  /\ Len(progressLog) = Len(SmartPatterns)
  /\ progressLog[1].attempts = attemptsAtStart + 1

\* C24: when the attack of the crack command ends because the context was
\* cancelled or its deadline passed, runCrack returns nil and no
\* "attack failed" error.
C24_InterruptReturnsNil ==
  (crackRet # << >> /\ C6_Cancelled) => crackRet[1] = NilError

\* C21: a preset name of a request resolves to the preset's string: the
\* alphabet the charset strategy of a web session enumerates is the string
\* of the preset the request named.
C21_PresetAlphabet ==
  (/\ req # << >>
   /\ req[1].Charset \in CharsetNames
   /\ pc \in { "bruteforceLoop", "bruteforceTest" })
    => charset = Charsets(req[1].Charset)

\* C25: every session startAttackHandler put in the map reaches the status
\* "completed" with a Result recorded.
C25_SessionCompletes ==
  (Listed /\ attacks[1].Status = "starting")
    ~> (/\ attacks # << >>
        /\ attacks[1].Status = "completed"
        /\ attacks[1].Result # << >>)

\* C26: once stopAttackHandler has answered that the session was stopped,
\* the session has the status "stopped" as long as it is in the map.
C26_StoppedStays ==
  (wpc["stop"] = << "done", "200" >> /\ Listed) => attacks[1].Status = "stopped"

\* C27: the AttackResult recorded in the session and the one broadcast carry
\* the algorithm of the session's token and the attempts the engine made.
C27_ResultFaithful ==
  /\ (attacks # << >> /\ attacks[1].Result # << >>)
       => /\ attacks[1].Result[1].Algorithm = algorithm
          /\ attacks[1].Result[1].Attempts = attempts
  /\ \A i \in 1..Len(broadcast) :
       broadcast[i].type = "result"
         => /\ broadcast[i].data.Algorithm = algorithm
            /\ broadcast[i].data.Attempts = attempts

\* C28: every access to the map Server.attacks is made with attacksMu held,
\* every write with attacksMu held exclusively.
C28_MapLocked ==
  \A a \in access :
    /\ a.lock # "none"
    /\ a.write => a.lock = "w"

\* g holds the mutex
Holds(mu, g) == mu.w = g \/ g \in mu.r

\* a step keeps the order of the two locks, and writes the session's fields
\* only as a step of the goroutine holding the session's lock exclusively
C29_Step ==
  /\ \A g \in Goroutines :
       /\ (Holds(attacksMu', g) /\ ~Holds(attacksMu, g)) => ~Holds(sessionMu, g)
       /\ (Holds(attacksMu, g) /\ ~Holds(attacksMu', g)) => ~Holds(sessionMu, g)
       /\ (Holds(sessionMu, g) /\ Holds(attacksMu, g)) => Holds(attacksMu', g)
  /\ (/\ attacks # << >>
      /\ << attacks'[1].Status, attacks'[1].Progress, attacks'[1].Result >>
           # << attacks[1].Status, attacks[1].Progress, attacks[1].Result >>)
       => /\ sessionMu.w \in Goroutines
          /\ wpc'[sessionMu.w] # wpc[sessionMu.w]

\* while a lock is held or waited for, one of the goroutines that take locks
\* can take a step
C29_Free ==
  (attacksMu # FreeMutex \/ sessionMu # FreeMutex)
    => ENABLED (AddAttackSession \/ executeAttack \/ stopAttackHandler
                  \/ attackStatusHandler \/ listAttacksHandler \/ RemoveAttackSession)

\* C29: wherever both locks are held, attacksMu was acquired before the
\* session's lock and is released after it; Status, Progress and Result are
\* written only under the session's lock held exclusively; and no
\* interleaving of start, stop, status, list, progress and result deadlocks.
C29_SessionLocks == []C29_Free /\ [][C29_Step]_vars

\* the attack goroutine holds attacksMu and waits for the session's lock,
\* which the status handler holds, while the stop handler waits for attacksMu
C29_Witness ==
  /\ attacksMu.w = "exec"
  /\ "stop" \in attacksMu.q
  /\ "exec" \in sessionMu.q
  /\ sessionMu.r = { "status" }

\* C30: a token that ValidateToken accepts is accepted by New when the rest
\* of the configuration is valid: New does not fail after the validation of
\* runCrack has passed.
C30_TokenAgreement ==
  (ValidateToken(cfg.Token) = "" /\ runCrackValidate(cfg) = NilError) => pc # "failed"

====
